---- MODULE Spec2Model ----
(***************************************************************************)
(* The request lifecycle of the gaxios HTTP client: preparation of the     *)
(* options, the request interceptor chain, dispatch to the transport,      *)
(* construction of the GaxiosError (deep copy and redaction), the retry    *)
(* decision, re-dispatch, and the response interceptor chain.              *)
(*                                                                         *)
(* Objects that the `extend` library copies by reference (instances of     *)
(* Headers, URL, URLSearchParams: anything that is not a plain object or   *)
(* an array) live in `heap` and are named by references; plain values are  *)
(* carried inside the records, so copying a record copies them.            *)
(***************************************************************************)
EXTENDS Integers, Sequences, FiniteSets, TLC

\* ------------------------------------------------------------- bounds
MaxCalls == 2
MaxRetry == 2
MaxNoResponseRetries == 1
MaxHandlers == 2

\* ------------------------------------------------- program constants
DefaultRetry == 3
DefaultNoResponseRetries == 2

Calls == 1..MaxCalls
Undef == 0 - 1
AttemptCap == (IF MaxRetry > DefaultRetry THEN MaxRetry ELSE DefaultRetry) + 3

Methods == {"GET", "POST"}
DefaultHttpMethodsToRetry == {"GET", "HEAD", "PUT", "OPTIONS", "DELETE"}
DefaultStatusCodesToRetry == << <<100, 199>>, <<429, 429>>, <<500, 599>> >>
UndefMethods == {"undefined"}
UndefRanges == << >>

REDACT == "REDACTED"

\* Header names as a caller or a server writes them, and the key under which
\* a Headers object stores and reports each of them (lower case).
AuthorizationNames == {"Authorization", "AUTHORIZATION", "authorization"}
OtherHeaderNames == {"Authentication", "X-Client-Secret", "random"}
Lower(name) ==
  CASE name \in AuthorizationNames -> "authorization"
    [] name = "Authentication" -> "authentication"
    [] name = "X-Client-Secret" -> "x-client-secret"
    [] name \in {"Apple", "APPLE"} -> "apple"
    [] name = "Set-Cookie" -> "set-cookie"
    [] name \in {"Content-Type", "CONTENT-TYPE"} -> "content-type"
    [] OTHER -> name
OtherHeaderKeys == {Lower(name) : name \in OtherHeaderNames}

\* ------------------------------------------------ values and references
\* A slot of a config holds a plain value (copied with the record) or a
\* reference to an object of the heap (shared by every copy of the record).
Val(v) == [k |-> "val", n |-> 0, v |-> v]
Ref(k, n) == [k |-> k, n |-> n, v |-> ""]
IsRef(x) == x.k # "val"
Refs == {Ref("hdr", c) : c \in Calls} \cup {Ref("url", c) : c \in Calls}
          \cup {Ref("data", 0)}
          \cup {Ref(k, c) : k \in OtherHeaderKeys, c \in Calls}
\* The Headers object of call c is Ref("hdr", c); that cell holds its
\* `authorization` entry and every other entry has a cell of its own.
HeaderCell(x, key) == IF key = "authorization" THEN x ELSE Ref(key, x.n)
HeaderCells(x) == {HeaderCell(x, key) : key \in {"authorization"} \cup OtherHeaderKeys}
KeyOf(cell) == IF cell.k = "hdr" THEN "authorization" ELSE cell.k
Deref(h, x) == IF IsRef(x) THEN h[x] ELSE x.v

\* ----------------------------------------------------- retry configuration
\* `shouldRetry` is "none" or the answer the caller's predicate gives ("yes",
\* "no"); `onRetryAttempt` is "none" or the kind of the caller's callback
\* ("sync", "async").
NoRetryConfig ==
  [present |-> FALSE, retry |-> Undef, noResponseRetries |-> Undef,
   currentRetryAttempt |-> Undef, httpMethodsToRetry |-> UndefMethods,
   statusCodesToRetry |-> UndefRanges, shouldRetry |-> "none",
   onRetryAttempt |-> "none", retryDelay |-> Undef, totalTimeout |-> Undef,
   maxRetryDelay |-> Undef, retryDelayMultiplier |-> Undef]

\* the retryConfig objects a caller passes
RetryConfigInputs(retries, noResp, methods, ranges) ==
  {[present |-> TRUE, retry |-> r, noResponseRetries |-> n,
    currentRetryAttempt |-> Undef, httpMethodsToRetry |-> m,
    statusCodesToRetry |-> s, shouldRetry |-> "none",
    onRetryAttempt |-> "none", retryDelay |-> Undef, totalTimeout |-> Undef,
    maxRetryDelay |-> Undef, retryDelayMultiplier |-> Undef] :
     r \in retries, n \in noResp, m \in methods, s \in ranges}

\* ------------------------------------------------------ strings and URLs
\* The strings that the code takes apart (urls, no-proxy rules, the NO_PROXY
\* variable) are sequences of characters.
StartsWith(s, prefix) ==
  Len(prefix) <= Len(s) /\ SubSeq(s, 1, Len(prefix)) = prefix
EndsWith(s, suffix) ==
  Len(suffix) <= Len(s) /\ SubSeq(s, Len(s) - Len(suffix) + 1, Len(s)) = suffix

\* String.prototype.split(','): the pieces between the commas
RECURSIVE Split(_)
Split(s) ==
  IF \A i \in 1..Len(s) : s[i] # ","
  THEN <<s>>
  ELSE LET i == CHOOSE k \in 1..Len(s) :
                  s[k] = "," /\ \A j \in 1..(k - 1) : s[j] # ","
       IN <<SubSeq(s, 1, i - 1)>> \o Split(SubSeq(s, i + 1, Len(s)))

\* String.prototype.trim(): the white space at both ends is dropped
RECURSIVE Trim(_)
Trim(s) ==
  CASE s = << >> -> s
    [] s[1] = " " -> Trim(Tail(s))
    [] s[Len(s)] = " " -> Trim(SubSeq(s, 1, Len(s) - 1))
    [] OTHER -> s

Scheme == <<"h", "t", "t", "p", "s", ":", "/", "/">>
ExIo == <<"e", "x", ".", "i", "o">>
SubExIo == <<"s", ".">> \o ExIo
XexIo == <<"x">> \o ExIo
OtIo == <<"o", "t", ".", "i", "o">>

\* new URL(url): the parts of a URL that the no-proxy rules look at
Url(host, path) == [hostname |-> host, pathname |-> path]
Origin(u) == Scheme \o u.hostname
Href(u) == Origin(u) \o u.pathname
Targets == {Url(h, <<"/">>) : h \in {ExIo, SubExIo, XexIo, OtIo}}
             \cup {Url(ExIo, <<"/", "p">>)}
DefaultTarget == Url(ExIo, <<"/">>)

\* the rules of a noProxy list: a RegExp (given by the hrefs it accepts), a
\* URL, or a string
RegExpRule(hrefs) == [kind |-> "regexp", text |-> << >>, accepts |-> hrefs]
UrlRule(u) == [kind |-> "url", text |-> Origin(u), accepts |-> {}]
StringRule(text) == [kind |-> "string", text |-> text, accepts |-> {}]

\* process.env: the variables that request preparation reads.  A proxy
\* variable that is not set is "" (the code tests them with ||); the no-proxy
\* variables are tested with ??, so not set and empty are told apart.
UnsetVar == <<"undefined">>
NoEnv ==
  [HTTPS_PROXY |-> "", https_proxy |-> "", HTTP_PROXY |-> "",
   http_proxy |-> "", NO_PROXY |-> UnsetVar, no_proxy |-> UnsetVar]

\* mutant: a rule that starts with a dot is compared like any other string
Matches_NoSuffixRule(rule, candidate) ==
  CASE rule.kind = "regexp" -> Href(candidate) \in rule.accepts
    [] rule.kind = "url" -> rule.text = Origin(candidate)
    [] OTHER -> \/ rule.text = Origin(candidate)
                \/ rule.text = candidate.hostname
                \/ rule.text = Href(candidate)

\* #urlMayUseProxy, the body of the loop: the rule excludes the candidate
Matches(rule, candidate) ==
  CASE rule.kind = "regexp" -> Href(candidate) \in rule.accepts
    [] rule.kind = "url" -> rule.text = Origin(candidate)
    [] StartsWith(rule.text, <<"*", ".">>) \/ StartsWith(rule.text, <<".">>) ->
         LET cleanedRule == IF StartsWith(rule.text, <<"*", ".">>)
                            THEN Tail(rule.text) ELSE rule.text
         IN EndsWith(candidate.hostname, cleanedRule)
    [] OTHER -> \/ rule.text = Origin(candidate)
                \/ rule.text = candidate.hostname
                \/ rule.text = Href(candidate)

\* #urlMayUseProxy, the list: the noProxy option, then the trimmed entries
\* of NO_PROXY (or, when that is not set, of no_proxy)
NoProxyEnvList(env) ==
  LET v == IF env.NO_PROXY # UnsetVar THEN env.NO_PROXY ELSE env.no_proxy
  IN IF v = UnsetVar THEN << >>
     ELSE [i \in 1..Len(Split(v)) |-> StringRule(Trim(Split(v)[i]))]
NoProxyList(noProxy, env) == noProxy \o NoProxyEnvList(env)

UrlMayUseProxy(url, noProxy, env) ==
  \A i \in 1..Len(NoProxyList(noProxy, env)) :
    ~Matches(NoProxyList(noProxy, env)[i], url)

\* String.prototype.includes
Includes(s, part) ==
  \E i \in 1..(Len(s) - Len(part) + 1) : SubSeq(s, i, i + Len(part) - 1) = part

UpperCase ==
  <<"A", "B", "C", "D", "E", "F", "G", "H", "I", "J", "K", "L", "M", "N",
    "O", "P", "Q", "R", "S", "T", "U", "V", "W", "X", "Y", "Z">>
LowerCase ==
  <<"a", "b", "c", "d", "e", "f", "g", "h", "i", "j", "k", "l", "m", "n",
    "o", "p", "q", "r", "s", "t", "u", "v", "w", "x", "y", "z">>

\* String.prototype.toLowerCase
ToLowerCase(s) ==
  [i \in 1..Len(s) |->
     IF \E j \in 1..26 : UpperCase[j] = s[i]
     THEN LowerCase[CHOOSE j \in 1..26 : UpperCase[j] = s[i]]
     ELSE s[i]]

\* Content-Type values of a response; NoContentType is headers.get giving null
NoContentType == <<"null">>
ApplicationJson == <<"a", "p", "p", "l", "i", "c", "a", "t", "i", "o", "n", "/", "j", "s", "o", "n">>
ApplicationJsonUpper == <<"A", "p", "p", "l", "i", "c", "a", "t", "i", "o", "n", "/", "J", "S", "O", "N">>
ApplicationJsonCharset == <<"a", "p", "p", "l", "i", "c", "a", "t", "i", "o", "n", "/", "j", "s", "o", "n", ";", "q", "=", "1">>
ApplicationJsonSeq == <<"a", "p", "p", "l", "i", "c", "a", "t", "i", "o", "n", "/", "j", "s", "o", "n", "-", "s", "e", "q">>
TextPlain == <<"t", "e", "x", "t", "/", "p", "l", "a", "i", "n">>
TextCsvUpper == <<"T", "E", "X", "T", "/", "c", "s", "v">>
TextWithJsonParameter == <<"t", "e", "x", "t", "/", "x", ";", "a", "=", "a", "p", "p", "l", "i", "c", "a", "t", "i", "o", "n", "/", "j", "s", "o", "n">>
ImageGif == <<"i", "m", "a", "g", "e", "/", "g", "i", "f">>
\* Content-Type values of a request
FormUrlEncoded == <<"a", "p", "p", "l", "i", "c", "a", "t", "i", "o", "n", "/", "x", "-", "w", "w", "w", "-", "f", "o", "r", "m", "-", "u", "r", "l", "e", "n", "c", "o", "d", "e", "d">>
FormUrlEncodedUpper == <<"A", "p", "p", "l", "i", "c", "a", "t", "i", "o", "n", "/", "X", "-", "W", "W", "W", "-", "F", "o", "r", "m", "-", "U", "r", "l", "e", "n", "c", "o", "d", "e", "d">>
FormUrlEncodedCharset == <<"a", "p", "p", "l", "i", "c", "a", "t", "i", "o", "n", "/", "x", "-", "w", "w", "w", "-", "f", "o", "r", "m", "-", "u", "r", "l", "e", "n", "c", "o", "d", "e", "d", ";", "c", "h", "a", "r", "s", "e", "t", "=", "U", "T", "F", "-", "8">>
JsonPatch == <<"a", "p", "p", "l", "i", "c", "a", "t", "i", "o", "n", "/", "j", "s", "o", "n", "-", "p", "a", "t", "c", "h", "+", "j", "s", "o", "n">>
MultipartRelated == <<"m", "u", "l", "t", "i", "p", "a", "r", "t", "/", "r", "e", "l", "a", "t", "e", "d", ";", " ", "b", "o", "u", "n", "d", "a", "r", "y", "=">>

ContentTypes ==
  {NoContentType, ApplicationJson, ApplicationJsonUpper, ApplicationJsonCharset,
   ApplicationJsonSeq, TextPlain, TextCsvUpper, TextWithJsonParameter, ImageGif}

\* ------------------------------------------------------------- agents
\* The proxy option: nothing, a string, or a URL object (`obj` is the
\* identity of the object).
NoProxy == [kind |-> "none", text |-> "", obj |-> 0]
StringProxy(text) == [kind |-> "string", text |-> text, obj |-> 0]
UrlProxy(text, obj) == [kind |-> "url", text |-> text, obj |-> obj]
Truthy(p) == p.kind = "url" \/ p.text # ""

\* a key of the Map agentCache: strings are equal by content, objects by
\* identity
CacheKey(p) ==
  IF p.kind = "url" THEN [kind |-> "object", text |-> "", obj |-> p.obj]
  ELSE [kind |-> "string", text |-> p.text, obj |-> 0]
Has(cache, k) == \E e \in cache : e.key = k
Get(cache, k) == (CHOOSE e \in cache : e.key = k).agent

NoAgent == [kind |-> "none", id |-> 0, proxy |-> "", cert |-> "", key |-> ""]
UserAgent == [NoAgent EXCEPT !.kind = "user"]

\* mutant: the environment is consulted before the proxy option
ConfiguredProxy_EnvFirst(o, env) ==
  CASE env.HTTPS_PROXY # "" -> StringProxy(env.HTTPS_PROXY)
    [] env.https_proxy # "" -> StringProxy(env.https_proxy)
    [] env.HTTP_PROXY # "" -> StringProxy(env.HTTP_PROXY)
    [] env.http_proxy # "" -> StringProxy(env.http_proxy)
    [] Truthy(o.proxy) -> o.proxy
    [] OTHER -> NoProxy

\* #prepareRequest: opts.proxy || HTTPS_PROXY || https_proxy || HTTP_PROXY
\* || http_proxy
ConfiguredProxy(o, env) ==
  CASE Truthy(o.proxy) -> o.proxy
    [] env.HTTPS_PROXY # "" -> StringProxy(env.HTTPS_PROXY)
    [] env.https_proxy # "" -> StringProxy(env.https_proxy)
    [] env.HTTP_PROXY # "" -> StringProxy(env.HTTP_PROXY)
    [] env.http_proxy # "" -> StringProxy(env.http_proxy)
    [] OTHER -> NoProxy

\* which branch of the agent selection a call with options o takes
AgentBranch(o, env) ==
  CASE o.agent = "user" -> "user"
    [] Truthy(ConfiguredProxy(o, env))
         /\ UrlMayUseProxy(o.target, o.noProxy, env) -> "proxy"
    [] o.cert # "" /\ o.key # "" -> "tls"
    [] OTHER -> "none"

\* #prepareRequest, the agent: the caller's agent, the cached or a new
\* proxy agent, the cached or a new TLS agent, or none.  The result holds
\* the agent, the cache and the number of agents constructed so far.
\* (variant for comparison: whatever agent is cached is taken, without a
\* lookup by key)
SelectAgent_AnyCached(o, env, cache, made) ==
  LET branch == AgentBranch(o, env)
      proxy == ConfiguredProxy(o, env)
      k == IF branch = "proxy" THEN CacheKey(proxy)
           ELSE CacheKey(StringProxy(o.key))
      fresh == [kind |-> branch, id |-> made + 1,
                proxy |-> IF branch = "proxy" THEN proxy.text ELSE "",
                cert |-> o.cert, key |-> o.key]
  IN CASE branch = "user" -> [agent |-> UserAgent, cache |-> cache, made |-> made]
       [] branch = "none" -> [agent |-> NoAgent, cache |-> cache, made |-> made]
       [] cache # {} -> [agent |-> (CHOOSE e \in cache : TRUE).agent,
                         cache |-> cache, made |-> made]
       [] OTHER -> [agent |-> fresh,
                    cache |-> cache \cup {[key |-> k, agent |-> fresh]},
                    made |-> made + 1]

SelectAgent(o, env, cache, made) ==
  LET branch == AgentBranch(o, env)
      proxy == ConfiguredProxy(o, env)
      k == IF branch = "proxy" THEN CacheKey(proxy)
           ELSE CacheKey(StringProxy(o.key))
      fresh == [kind |-> branch, id |-> made + 1,
                proxy |-> IF branch = "proxy" THEN proxy.text ELSE "",
                cert |-> o.cert, key |-> o.key]
  IN CASE branch = "user" -> [agent |-> UserAgent, cache |-> cache, made |-> made]
       [] branch = "none" -> [agent |-> NoAgent, cache |-> cache, made |-> made]
       [] Has(cache, k) -> [agent |-> Get(cache, k), cache |-> cache, made |-> made]
       [] OTHER -> [agent |-> fresh,
                    cache |-> cache \cup {[key |-> k, agent |-> fresh]},
                    made |-> made + 1]

\* ------------------------------------------------------------ Headers
\* A Headers object is its header list: entries <<key, value>> in insertion
\* order, the key in lower case, the value the list of the values that a
\* read joins with ", ".  An init is a sequence of <<name, value>> pairs.

\* keys in the order in which a Headers object iterates (sorted)
SortedKeys == <<"apple", "content-type", "figgy", "set-cookie">>

\* new Headers(init)
HeadersOf(init) ==
  [i \in 1..Len(init) |-> <<Lower(init[i][1]), <<init[i][2]>>>>]

\* headers.get(name): the values under the name in any casing, joined;
\* the empty list stands for null
RECURSIVE HeadersGet(_, _)
HeadersGet(h, name) ==
  IF h = << >> THEN << >>
  ELSE (IF Head(h)[1] = Lower(name) THEN Head(h)[2] ELSE << >>)
         \o HeadersGet(Tail(h), name)

RECURSIVE ReplaceIn(_, _, _, _)
ReplaceIn(h, key, value, seen) ==
  IF h = << >> THEN (IF seen THEN << >> ELSE <<<<key, value>>>>)
  ELSE IF Head(h)[1] = key
       THEN (IF seen THEN << >> ELSE <<<<key, value>>>>)
              \o ReplaceIn(Tail(h), key, value, TRUE)
       ELSE <<Head(h)>> \o ReplaceIn(Tail(h), key, value, seen)

\* headers.set(name, value): one entry replaces every entry of the name
HeadersSet(h, name, value) == ReplaceIn(h, Lower(name), value, FALSE)

\* headers.append(name, value)
HeadersAppend(h, name, value) == Append(h, <<Lower(name), value>>)

\* headers.forEach: the entries sorted by key and combined by key, those
\* of set-cookie one by one
RECURSIVE Iterate(_, _)
Iterate(h, keys) ==
  IF keys = << >> THEN << >>
  ELSE LET key == Head(keys)
           own == SelectSeq(h, LAMBDA e : e[1] = key)
       IN (IF own = << >> THEN << >>
           ELSE IF key = "set-cookie" THEN own
           ELSE <<<<key, HeadersGet(h, key)>>>>)
            \o Iterate(h, Tail(keys))

ForEach(h) == Iterate(h, SortedKeys)

\* (variant for comparison: set-cookie is set like every other header)
RECURSIVE MergeEntries_AlwaysSet(_, _)
MergeEntries_AlwaysSet(base, entries) ==
  IF entries = << >> THEN base
  ELSE MergeEntries_AlwaysSet(HeadersSet(base, Head(entries)[1], Head(entries)[2]),
                              Tail(entries))

\* the callback of #mergeHeaders applied to the entries in turn
RECURSIVE MergeEntries(_, _)
MergeEntries(base, entries) ==
  IF entries = << >> THEN base
  ELSE LET key == Head(entries)[1]
           value == Head(entries)[2]
       IN MergeEntries(IF key = "set-cookie"
                       THEN HeadersAppend(base, key, value)
                       ELSE HeadersSet(base, key, value),
                       Tail(entries))

\* #mergeHeaders(base, append)
mergeHeaders(base, append) == MergeEntries(base, ForEach(append))

\* the prepared Headers of a call: new Headers(defaults.headers) merged
\* with the call's headers
PreparedHeaders(dflt, o) ==
  mergeHeaders(HeadersOf(dflt.headers), HeadersOf(o.headerInit))

NoDefaults == [headers |-> << >>]

\* ----------------------------------------------------------- options
\* The options object a caller hands to request().  `sensitive` says that
\* the Authorization header, the `token` query parameter and the data carry
\* a credential; `dataKind` is "none", "plain" (a plain object), "string"
\* or "usp" (a URLSearchParams instance owned by the caller).
\* `responseType` and `maxContentLength` are left at their defaults here;
\* `contentLength` is the Content-Length the server declares in its answers
\* to this call (Undef: no such header).  `authName` is the name under which
\* the caller wrote the Authorization header, `headers` the names of the
\* other headers of the request and `responseHeaders` the names of the
\* headers of the server's answers.  `redactorThrows` says that the
\* errorRedactor is a function of the caller that throws.  `target` is the
\* url of the request (when `url` says there is one); `agent`, `proxy`,
\* `noProxy`, `cert` and `key` are the options of that name.  `latencies`
\* are the times an attempt of the call may take.  `multipart` says that
\* the call has a (non-empty) multipart option.  `headerInit` are the
\* entries of the call's Headers whose values matter (`headers` names
\* those of which only the redaction matters).  `responseContentType` is
\* the Content-Type that the server declares and `responseBody` says
\* whether the body it sends is JSON text ("json") or other text ("text").
MakeOptions(u, m, r, rc, sig, t, sens, dk, red) ==
  [url |-> u, method |-> m, retry |-> r, retryConfig |-> rc, signal |-> sig,
   timeout |-> t, sensitive |-> sens, dataKind |-> dk, errorRedactor |-> red,
   responseType |-> "json", maxContentLength |-> Undef, contentLength |-> Undef,
   authName |-> "Authorization", headers |-> {}, responseHeaders |-> {},
   redactorThrows |-> FALSE,
   target |-> DefaultTarget, agent |-> "none", proxy |-> NoProxy,
   noProxy |-> << >>, cert |-> "", key |-> "", latencies |-> {0},
   multipart |-> FALSE, headerInit |-> << >>,
   responseContentType |-> ApplicationJson, responseBody |-> "json"]

NoOptions ==
  MakeOptions(FALSE, "GET", FALSE, NoRetryConfig, FALSE, FALSE, FALSE, "none", TRUE)

\* the prepared config before request() has run
NoConfig ==
  [url |-> Val("absent"), method |-> "GET", headers |-> Val("absent"),
   data |-> Val("absent"), body |-> Val("absent"), retry |-> FALSE,
   retryConfig |-> NoRetryConfig, errorRedactor |-> FALSE,
   signal |-> "none", trail |-> << >>, responseType |-> "json",
   maxContentLength |-> Undef, redactorThrows |-> FALSE, agent |-> NoAgent,
   boundary |-> 0]

Secret(o) == IF o.sensitive THEN "orig" ELSE "plain"

\* #prepareRequest: the merged, prepared config of call c.  Headers and URL
\* are fresh instances; a URLSearchParams `data` is the caller's own object,
\* passed through as the body; a plain object is serialised to a string.
PreparedConfig(c, o) ==
  [url |-> Ref("url", c),
   method |-> o.method,
   headers |-> Ref("hdr", c),
   data |-> CASE o.dataKind = "usp" -> Ref("data", 0)
             [] o.dataKind \in {"plain", "string"} -> Val(Secret(o))
             [] OTHER -> Val("absent"),
   body |-> CASE o.dataKind = "usp" -> Ref("data", 0)
             [] o.dataKind \in {"plain", "string"} -> Val(Secret(o))
             [] OTHER -> Val("absent"),
   retry |-> o.retry,
   retryConfig |-> o.retryConfig,
   errorRedactor |-> o.errorRedactor,
   signal |-> CASE o.signal /\ o.timeout -> "any"
               [] o.signal -> "user"
               [] o.timeout -> "timeout"
               [] OTHER -> "none",
   trail |-> << >>,
   responseType |-> o.responseType,
   maxContentLength |-> o.maxContentLength,
   redactorThrows |-> o.redactorThrows,
   agent |-> NoAgent,
   boundary |-> 0]

\* (variant for comparison: every preparation uses the same boundary)
WithMultipart_FixedBoundary(config, o, drawn) ==
  IF o.multipart
  THEN [config EXCEPT !.boundary = 1, !.body = Val("multipart")]
  ELSE config

\* #prepareRequest with a multipart option: the body is the multipart
\* stream and the content-type names the boundary, a UUID drawn for this
\* preparation (the n-th UUID drawn is n)
WithMultipart(config, o, drawn) ==
  IF o.multipart
  THEN [config EXCEPT !.boundary = drawn + 1, !.body = Val("multipart")]
  ELSE config

\* the kinds of `data` that are handed to fetch as they are: a string, a
\* URLSearchParams (and ArrayBuffer, Blob, File, FormData, streams, views)
BodyNative == {"string", "usp"}

\* #prepareRequest, the body: the prepared Headers and opts.body after the
\* chain of branches multipart / shouldDirectlyPassData / object.  The
\* boundary that follows the multipart content-type is config.boundary.
PrepareBody(headers, o) ==
  CASE o.multipart ->
         [headers |-> HeadersSet(headers, "content-type", <<MultipartRelated>>),
          body |-> "multipart"]
    [] o.dataKind \in BodyNative -> [headers |-> headers, body |-> "data"]
    [] o.dataKind = "plain" ->
         IF HeadersGet(headers, "Content-Type") = <<FormUrlEncoded>>
         THEN [headers |-> headers, body |-> "URLSearchParams(data)"]
         ELSE [headers |->
                 IF HeadersGet(headers, "content-type") = << >>
                 THEN HeadersSet(headers, "content-type", <<ApplicationJson>>)
                 ELSE headers,
               body |-> "JSON.stringify(data)"]
    [] OTHER -> [headers |-> headers, body |-> "absent"]

\* the content-type entry of the prepared Headers and the boundary after it
ContentType(config, o, dflt) ==
  <<HeadersGet(PrepareBody(PreparedHeaders(dflt, o), o).headers, "content-type"),
    config.boundary>>

\* url, method, headers and body of a prepared config, as a deep comparison
\* sees them
PreparedFields(h, config, o, dflt) ==
  [url |-> <<Href(o.target), h[config.url]>>,
   method |-> config.method,
   headers |-> {<<KeyOf(r), h[r]>> :
                  r \in {x \in HeaderCells(config.headers) : h[x] # "unallocated"}},
   merged |-> PreparedHeaders(dflt, o),
   contentType |-> ContentType(config, o, dflt),
   encoding |-> PrepareBody(PreparedHeaders(dflt, o), o).body,
   body |-> <<Deref(h, config.body), config.boundary>>]

\* the heap after #prepareRequest allocated the Headers and the URL of call c
PreparedHeap(h, c, o) ==
  [r \in Refs |->
     CASE r = HeaderCell(Ref("hdr", c), Lower(o.authName)) -> Secret(o)
       [] r = Ref("url", c) -> Secret(o)
       [] r \in {HeaderCell(Ref("hdr", c), Lower(name)) : name \in o.headers} -> "set"
       [] OTHER -> h[r]]

\* mutant: a validateStatus that lets every status through
ValidateStatus_AcceptsAll(status) == status >= 200

\* validateStatus: by default any non-2xx status is rejected
ValidateStatus(status) == status >= 200 /\ status < 300


\* ------------------------------------------------------------ error model
NoCause == [type |-> "none", name |-> "", code |-> ""]
NodeError(code) == [type |-> "Error", name |-> "Error", code |-> code]
DomException(name) == [type |-> "DOMException", name |-> name, code |-> ""]

NoError ==
  [isGaxios |-> FALSE, message |-> "none", hasResponse |-> FALSE, status |-> 0,
   code |-> "", config |-> NoConfig, born |-> 0, data |-> "none",
   headers |-> {}]

\* an Error that is not a GaxiosError (thrown by user code or by validation)
PlainError(message) == [NoError EXCEPT !.message = message]

\* extend(true, {}, config): plain objects and arrays are copied recursively,
\* every other object (Headers, URL, URLSearchParams) is assigned by
\* reference, so the copy holds the same references as the original.
Extend(config) == config

\* mutant: the legacy `code` of the cause is used for DOMExceptions too
ErrorCode_Legacy(cause) == cause.code

\* GaxiosError.code: the name of a DOMException, or the string code of the cause
ErrorCode(cause) ==
  CASE cause.type = "DOMException" -> cause.name
    [] cause.type = "Error" /\ cause.code # "" -> cause.code
    [] OTHER -> ""

\* defaultErrorRedactor on a slot: a string or a property of a plain object
\* is replaced in the object it is given; Headers.set, URLSearchParams.set and
\* url.searchParams.set change the referenced object itself.
RedactPlain(x) == IF ~IsRef(x) /\ x.v = "orig" THEN Val(REDACT) ELSE x
RedactObject(h, x) ==
  IF IsRef(x) /\ h[x] = "orig" THEN [h EXCEPT ![x] = REDACT] ELSE h

\* (variant for comparison: the redactor blanks the retry state as well)
DefaultErrorRedactorConfig_BlanksRetryState(config) ==
  [config EXCEPT !.headers = RedactPlain(@), !.data = RedactPlain(@),
                 !.body = RedactPlain(@), !.url = RedactPlain(@),
                 !.retryConfig = NoRetryConfig]

\* defaultErrorRedactor on the config of the error: the slots that hold a
\* plain value
DefaultErrorRedactorConfig(config) ==
  [config EXCEPT !.headers = RedactPlain(@), !.data = RedactPlain(@),
                 !.body = RedactPlain(@), !.url = RedactPlain(@)]

\* mutant: only the header names that contain `secret` are redacted
SensitiveHeader_SecretOnly(key) == key = "x-client-secret"

\* redactHeaders, the test on a key: any casing of Authentication, any
\* casing of Authorization, anything that contains `secret`
SensitiveHeader(key) ==
  \/ Lower(key) = "authentication"
  \/ Lower(key) = "authorization"
  \/ Lower(key) = "x-client-secret"

\* redactHeaders on the Headers object x: headers.set(key, REDACT) for every
\* entry whose key is sensitive
RedactHeaders(h, x) ==
  IF ~IsRef(x) THEN h
  ELSE [r \in Refs |->
          IF /\ r \in HeaderCells(x)
             /\ h[r] \in {"orig", "set"}
             /\ SensitiveHeader(KeyOf(r))
          THEN REDACT ELSE h[r]]

\* redactHeaders on the headers of a response (a set of <<key, value>>)
RedactResponseHeaders(hs) ==
  {<<p[1], IF SensitiveHeader(p[1]) THEN REDACT ELSE p[2]>> : p \in hs}

\* the Headers of the answers the server gives to a call with options o
ResponseHeaders(o) == {<<Lower(name), "set">> : name \in o.responseHeaders}

DefaultErrorRedactorHeap(h, config) ==
  RedactObject(RedactObject(RedactObject(RedactHeaders(h, config.headers),
                                         config.data), config.body), config.url)

\* mutant: the response is not attached to the error
GaxiosError_DropsResponse(message, config, hasResponse, status, cause, n) ==
  [isGaxios |-> TRUE, message |-> message, hasResponse |-> FALSE,
   status |-> 0, code |-> ErrorCode(cause),
   config |-> IF config.errorRedactor
                THEN DefaultErrorRedactorConfig(Extend(config))
                ELSE Extend(config),
   born |-> n, data |-> "none", headers |-> {}]

\* new GaxiosError(message, config, response, cause): the error object
GaxiosError(message, config, hasResponse, status, cause, n) ==
  [isGaxios |-> TRUE, message |-> message, hasResponse |-> hasResponse,
   status |-> status, code |-> ErrorCode(cause),
   config |-> IF config.errorRedactor
                THEN DefaultErrorRedactorConfig(Extend(config))
                ELSE Extend(config),
   born |-> n, data |-> "none", headers |-> {}]

\* The constructor calls config.errorRedactor outside any try block: an
\* exception of the redactor leaves the constructor, and the catch block of
\* _request, which wraps it with the same config, throws it again.
RedactorFailure == "errorRedactor threw"
ConstructorThrows(config) == config.errorRedactor /\ config.redactorThrows

\* ... and what its constructor does to the objects of the heap
GaxiosErrorHeap(h, config) ==
  IF config.errorRedactor THEN DefaultErrorRedactorHeap(h, Extend(config)) ELSE h

\* ------------------------------------------------------------ retry engine
OrDefault(x, d) == IF x = Undef THEN d ELSE x

\* times are in milliseconds; Forever stands for Number.MAX_SAFE_INTEGER
DefaultRetryDelay == 100
DefaultMultiplier == 2
Forever == 1000000
Min(a, b) == IF a <= b THEN a ELSE b
Last(seq) == seq[Len(seq)]
RECURSIVE Pow(_, _)
Pow(b, n) == IF n = 0 THEN 1 ELSE b * Pow(b, n - 1)

\* getRetryConfig, first half: the retry state with its defaults filled in
WithRetryDefaults(rc) ==
  [present |-> TRUE,
   retry |-> OrDefault(rc.retry, DefaultRetry),
   noResponseRetries |-> OrDefault(rc.noResponseRetries, DefaultNoResponseRetries),
   currentRetryAttempt |-> OrDefault(rc.currentRetryAttempt, 0),
   httpMethodsToRetry |->
     IF rc.httpMethodsToRetry = UndefMethods THEN DefaultHttpMethodsToRetry
     ELSE rc.httpMethodsToRetry,
   statusCodesToRetry |->
     IF rc.statusCodesToRetry = UndefRanges THEN DefaultStatusCodesToRetry
     ELSE rc.statusCodesToRetry,
   shouldRetry |-> rc.shouldRetry,
   onRetryAttempt |-> rc.onRetryAttempt,
   retryDelay |-> OrDefault(rc.retryDelay, DefaultRetryDelay),
   totalTimeout |-> OrDefault(rc.totalTimeout, Forever),
   maxRetryDelay |-> OrDefault(rc.maxRetryDelay, Forever),
   retryDelayMultiplier |-> OrDefault(rc.retryDelayMultiplier, DefaultMultiplier)]

InRanges(status, ranges) ==
  \E i \in 1..Len(ranges) : status >= ranges[i][1] /\ status <= ranges[i][2]

\* (variant for comparison: the rules without the budget `retry`)
ShouldRetryRequest_NoBudget(e, rc) ==
  /\ e.code # "AbortError"
  /\ rc.retry # 0
  /\ (~e.hasResponse => rc.currentRetryAttempt < rc.noResponseRetries)
  /\ e.config.method \in rc.httpMethodsToRetry
  /\ (e.hasResponse => InRanges(e.status, rc.statusCodesToRetry))

\* the built-in retry rules, on an error whose retry state has its defaults
ShouldRetryRequest(e, rc) ==
  /\ e.code # "AbortError"
  /\ rc.retry # 0
  /\ (~e.hasResponse => rc.currentRetryAttempt < rc.noResponseRetries)
  /\ e.config.method \in rc.httpMethodsToRetry
  /\ (e.hasResponse => InRanges(e.status, rc.statusCodesToRetry))
  /\ rc.currentRetryAttempt < rc.retry

\* mutant: the caller's predicate is asked in place of the built-in rules
RetryAllowed_PredicateReplaces(e, rc) ==
  IF rc.shouldRetry = "none" THEN ShouldRetryRequest(e, rc)
  ELSE rc.shouldRetry = "yes"

\* the built-in rules, and then the caller's predicate when there is one:
\* it can veto the retry
RetryAllowed(e, rc) ==
  /\ ShouldRetryRequest(e, rc)
  /\ rc.shouldRetry # "no"

\* getRetryConfig(err): {shouldRetry, config}.  Without a retryConfig and
\* without `retry: true` nothing is evaluated; otherwise the defaults are put
\* back into err.config and, on a retry, currentRetryAttempt is incremented.
GetRetryConfig(e) ==
  IF ~e.config.retryConfig.present /\ ~e.config.retry
  THEN [shouldRetry |-> FALSE, config |-> e.config]
  ELSE LET rc == WithRetryDefaults(e.config.retryConfig)
           go == RetryAllowed(e, rc)
       IN [shouldRetry |-> go,
           config |-> [e.config EXCEPT !.retryConfig =
                         IF go THEN [rc EXCEPT !.currentRetryAttempt = @ + 1]
                         ELSE rc]]

\* the delay before the next retry as computed from the retry state alone
FullDelay(rc) ==
  Min(rc.maxRetryDelay,
      rc.retryDelay * Pow(rc.retryDelayMultiplier, rc.currentRetryAttempt))

\* mutant: the delay is not shortened to what is left until the deadline
NextRetryDelay_NotShortened(rc, elapsed) == FullDelay(rc)

\* ... and shortened to what is left of totalTimeout, `elapsed` being the
\* time since the first request
NextRetryDelay(rc, elapsed) == Min(FullDelay(rc), rc.totalTimeout - elapsed)

\* getRetryConfig(err) at a time `elapsed` after the first request: there
\* is no retry once totalTimeout has passed
GetRetryConfigAt(e, elapsed) ==
  LET r == GetRetryConfig(e)
      rc == WithRetryDefaults(e.config.retryConfig)
  IN IF r.shouldRetry /\ elapsed > rc.totalTimeout
     THEN [shouldRetry |-> FALSE,
           config |-> [e.config EXCEPT !.retryConfig = rc]]
     ELSE r

\* mutant: the retry state of the error is not copied to the live config
CarryRetryState_Dropped(config, errConfig) == config

\* mutant: the retry state is copied with its attempt counter started over
CarryRetryState_Reset(config, errConfig) ==
  [config EXCEPT !.retryConfig =
     [errConfig.retryConfig EXCEPT !.currentRetryAttempt = 0]]

\* mutant: the attempt counter is advanced once more when it is copied
CarryRetryState_Doubled(config, errConfig) ==
  [config EXCEPT !.retryConfig =
     [errConfig.retryConfig EXCEPT !.currentRetryAttempt = @ + 1]]

\* _request, the catch block: only the retry state of the error's config is
\* copied over to the live config that is dispatched again
CarryRetryState(config, errConfig) ==
  [config EXCEPT !.retryConfig = errConfig.retryConfig]

\* mutant: a retry goes through request() again, interceptors included
RetryResume_WholeRequest == "prepared"

\* _request re-invokes itself on a retry: the next step is a dispatch
RetryResume == "dispatch"

\* -------------------------------------------------------- interceptor manager
\* an entry of #interceptorQueue: the handler object (`id` names the object,
\* `kind` what its callbacks do) and, in `slot`, the number addInterceptor
\* returned for it; null once removed
NullEntry == [id |-> 0, kind |-> "null", slot |-> Undef]
Handler(id, kind, slot) == [id |-> id, kind |-> kind, slot |-> slot]
HandlerKinds == {"pass", "throw", "recover"}

NotNull(e) == e # NullEntry
Ids(q) == [i \in 1..Len(q) |-> q[i].id]

\* one for...of pass over the manager: next() is called until it reports done,
\* reading from the manager's own #index, which is incremented on every call
IterVisited(queue, index) ==
  IF index < Len(queue) THEN SubSeq(queue, index + 1, Len(queue)) ELSE << >>
IterIndexAfter(queue, index) ==
  (IF index < Len(queue) THEN Len(queue) ELSE index) + 1

\* mutant: an error goes past every handler, rejected callbacks included
ChainStep_ErrorsPassThrough(v, h) ==
  IF v.ok
  THEN CASE h.kind = "throw" ->
              [ok |-> FALSE, status |-> 0, error |-> PlainError("interceptor"),
               trail |-> Append(v.trail, h.id)]
         [] h.kind = "pass" -> [v EXCEPT !.trail = Append(@, h.id)]
         [] OTHER -> v
  ELSE v

\* promiseChain.then(resolved, rejected) for one handler.  A value of the
\* chain carries in `trail` the handlers that have produced it, oldest first:
\* a handler that runs returns (or throws) a value marked with its own id.
\*   "pass":    resolved returns its input, modified; no rejected handler
\*   "throw":   resolved throws an Error; no rejected handler
\*   "recover": resolved returns its input as it is; rejected returns a value
ChainStep(v, h) ==
  IF v.ok
  THEN CASE h.kind = "throw" ->
              [ok |-> FALSE, status |-> 0, error |-> PlainError("interceptor"),
               trail |-> Append(v.trail, h.id)]
         [] h.kind = "pass" -> [v EXCEPT !.trail = Append(@, h.id)]
         [] OTHER -> v
  ELSE IF h.kind = "recover"
       THEN [ok |-> TRUE, status |-> 0, error |-> NoError,
             trail |-> Append(v.trail, h.id)]
       ELSE v

\* mutant: every handler is attached to the input of the chain, not to the
\* handler before it; the value of the last one is the result
RunChain_Parallel(chain, v) ==
  IF chain = << >> THEN v ELSE ChainStep(v, chain[Len(chain)])

RECURSIVE RunChain(_, _)
RunChain(chain, v) ==
  IF chain = << >> THEN v ELSE RunChain(Tail(chain), ChainStep(v, Head(chain)))

Fulfilled(status) ==
  [ok |-> TRUE, status |-> status, error |-> NoError, trail |-> << >>]
Rejected(e) == [ok |-> FALSE, status |-> 0, error |-> e, trail |-> << >>]
Pending == [ok |-> FALSE, status |-> Undef, error |-> NoError, trail |-> << >>]


\* ------------------------------------------------------------------ state
VARIABLES
  heap,         \* the objects copied by reference: ref -> content
  reqQueue,     \* interceptors.request: #interceptorQueue
  reqIndex,     \* interceptors.request: #index
  resQueue,     \* interceptors.response: #interceptorQueue
  resIndex,     \* interceptors.response: #index
  nextHandler,  \* identity of the next handler object a caller creates
  options,      \* call -> the options object the caller passes
  pc,           \* call -> where the call stands
  opts,         \* call -> the live prepared config
  fired,        \* call -> which signal has aborted: "no", "user", "timeout"
  err,          \* call -> the error of the last failed attempt
  invocations,  \* call -> number of transport invocations so far
  sent,         \* call -> what each transport invocation was given
  outcomes,     \* call -> what each transport invocation produced
  settled,      \* call -> the outcome of _request
  result,       \* call -> what the caller of request() receives
  reqApplied,   \* call -> the request handlers chained for the call
  reqExpected,  \* call -> ids of the request handlers registered at that time
  resChain,     \* call -> the response handlers chained for the call
  resExpected,  \* call -> ids of the response handlers registered at that time
  reqRuns,      \* call -> times the request chain was run
  resRuns,      \* call -> times the response chain was run
  notified,     \* call -> what each onRetryAttempt invocation observed
  backoffs,     \* call -> number of backoff sleeps that have elapsed
  bodyOps,      \* call -> what each attempt did with the body of the response
  decoded,      \* call -> the data each attempt obtained from the response
  env,          \* process.env
  agentCache,   \* the Map agentCache of the instance
  agentsMade,   \* number of agents constructed so far
  elapsed,      \* call -> time since its first request
  sleeps,       \* call -> the delays of its retries
  startedAt,    \* call -> the time at which each attempt was dispatched
  retired,      \* ids that add returned on the request manager before its last removeAll
  drawn,        \* number of UUIDs drawn so far
  defaults,     \* the instance defaults (their headers)
  prepared      \* call -> url, method, headers, body as #prepareRequest returned them

instanceVars == <<reqQueue, reqIndex, resQueue, resIndex, nextHandler>>
icptVars == <<reqApplied, reqExpected, resChain, resExpected, reqRuns, resRuns>>
callVars == <<options, pc, opts, fired, err, invocations, sent, outcomes,
              settled, result>>
retryVars == <<notified, backoffs>>
respVars == <<bodyOps, decoded>>
agentVars == <<env, agentCache, agentsMade>>
timeVars == <<elapsed, sleeps, startedAt>>
prepVars == <<drawn, defaults, prepared>>
idVars == <<retired>>
vars == <<heap, instanceVars, callVars, icptVars, retryVars, respVars, agentVars,
          timeVars, prepVars, idVars>>

\* the state after `new Gaxios()` with the calls still to be made
InitWithDefaults(optionFns, envs, defaultSet) ==
  /\ options \in optionFns
  /\ env \in envs
  /\ defaults \in defaultSet
  /\ agentCache = {}
  /\ agentsMade = 0
  /\ heap = [r \in Refs |->
               IF r = Ref("data", 0)
               THEN (IF \E c \in Calls : options[c].dataKind = "usp"
                         /\ options[c].sensitive THEN "orig" ELSE "plain")
               ELSE "unallocated"]
  /\ reqQueue = << >> /\ reqIndex = 0
  /\ resQueue = << >> /\ resIndex = 0
  /\ nextHandler = 1
  /\ pc = [c \in Calls |-> "idle"]
  /\ opts = [c \in Calls |-> NoConfig]
  /\ fired = [c \in Calls |-> "no"]
  /\ err = [c \in Calls |-> NoError]
  /\ invocations = [c \in Calls |-> 0]
  /\ sent = [c \in Calls |-> << >>]
  /\ outcomes = [c \in Calls |-> << >>]
  /\ settled = [c \in Calls |-> Pending]
  /\ result = [c \in Calls |-> Pending]
  /\ reqApplied = [c \in Calls |-> << >>]
  /\ reqExpected = [c \in Calls |-> << >>]
  /\ resChain = [c \in Calls |-> << >>]
  /\ resExpected = [c \in Calls |-> << >>]
  /\ reqRuns = [c \in Calls |-> 0]
  /\ resRuns = [c \in Calls |-> 0]
  /\ notified = [c \in Calls |-> << >>]
  /\ backoffs = [c \in Calls |-> 0]
  /\ bodyOps = [c \in Calls |-> << >>]
  /\ decoded = [c \in Calls |-> << >>]
  /\ elapsed = [c \in Calls |-> 0]
  /\ sleeps = [c \in Calls |-> << >>]
  /\ startedAt = [c \in Calls |-> << >>]
  /\ drawn = 0
  /\ prepared = [c \in Calls |-> << >>]
  /\ retired = {}

InitWithEnv(optionFns, envs) == InitWithDefaults(optionFns, envs, {NoDefaults})

InitWith(optionFns) == InitWithEnv(optionFns, {NoEnv})

\* ---------------------------------------------------------------- request()
\* mutant: #prepareRequest without the check of the url
Request_NoUrlCheck(c) ==
  /\ pc[c] = "idle"
  /\ pc' = [pc EXCEPT ![c] = "prepared"]
  /\ opts' = [opts EXCEPT ![c] = PreparedConfig(c, options[c])]
  /\ heap' = PreparedHeap(heap, c, options[c])
  /\ UNCHANGED <<instanceVars, icptVars, options, fired, err, invocations, sent,
                 outcomes, settled, result>>
  /\ UNCHANGED retryVars
  /\ UNCHANGED respVars
  /\ UNCHANGED agentVars
  /\ UNCHANGED timeVars
  /\ UNCHANGED prepVars
  /\ UNCHANGED idVars

\* request(), first await: #prepareRequest.  Without a url it throws.
Request(c) ==
  /\ pc[c] = "idle"
  /\ IF ~options[c].url
     THEN /\ pc' = [pc EXCEPT ![c] = "done"]
          /\ result' = [result EXCEPT ![c] = Rejected(PlainError("URL is required."))]
          /\ UNCHANGED <<heap, opts>>
          /\ UNCHANGED <<agentCache, agentsMade>>
          /\ UNCHANGED prepVars
     ELSE LET sel == SelectAgent(options[c], env, agentCache, agentsMade)
              config == [WithMultipart(PreparedConfig(c, options[c]), options[c], drawn)
                           EXCEPT !.agent = sel.agent]
          IN
          /\ pc' = [pc EXCEPT ![c] = "prepared"]
          /\ opts' = [opts EXCEPT ![c] = config]
          /\ heap' = PreparedHeap(heap, c, options[c])
          /\ drawn' = IF options[c].multipart THEN drawn + 1 ELSE drawn
          /\ prepared' = [prepared EXCEPT ![c] =
                            <<PreparedFields(PreparedHeap(heap, c, options[c]),
                                             config, options[c], defaults)>>]
          /\ UNCHANGED defaults
          /\ agentCache' = sel.cache
          /\ agentsMade' = sel.made
          /\ UNCHANGED result
  /\ UNCHANGED <<instanceVars, icptVars, options, fired, err, invocations, sent,
                 outcomes, settled>>
  /\ UNCHANGED retryVars
  /\ UNCHANGED respVars
  /\ UNCHANGED env
  /\ UNCHANGED timeVars
  /\ UNCHANGED idVars

\* (variant for comparison: a rejected request chain does not stop the call)
ApplyRequestInterceptors_DispatchesAnyway(c) ==
  /\ pc[c] = "prepared"
  /\ LET chain == SelectSeq(IterVisited(reqQueue, reqIndex), NotNull)
         out == RunChain(chain, Fulfilled(0))
     IN /\ reqIndex' = IterIndexAfter(reqQueue, reqIndex)
        /\ reqApplied' = [reqApplied EXCEPT ![c] = chain]
        /\ reqExpected' = [reqExpected EXCEPT ![c] = Ids(SelectSeq(reqQueue, NotNull))]
        /\ reqRuns' = [reqRuns EXCEPT ![c] = @ + 1]
        /\ IF out.ok
           THEN /\ pc' = [pc EXCEPT ![c] = "intercepted"]
                /\ opts' = [opts EXCEPT ![c].trail = out.trail]
                /\ UNCHANGED result
           ELSE /\ pc' = [pc EXCEPT ![c] = "intercepted"]
                /\ UNCHANGED <<opts, result>>
  /\ UNCHANGED <<heap, reqQueue, resQueue, resIndex, nextHandler, options,
                 fired, err, invocations, sent, outcomes, settled, resChain,
                 resExpected, resRuns>>
  /\ UNCHANGED retryVars
  /\ UNCHANGED respVars
  /\ UNCHANGED agentVars
  /\ UNCHANGED timeVars
  /\ UNCHANGED prepVars
  /\ UNCHANGED idVars

\* request(), second await: the request interceptors are chained onto the
\* prepared config in one pass over the manager, then run.  A rejection of
\* the chain is thrown by the await and rejects the call.
ApplyRequestInterceptors(c) ==
  /\ pc[c] = "prepared"
  /\ LET chain == SelectSeq(IterVisited(reqQueue, reqIndex), NotNull)
         out == RunChain(chain, Fulfilled(0))
     IN /\ reqIndex' = IterIndexAfter(reqQueue, reqIndex)
        /\ reqApplied' = [reqApplied EXCEPT ![c] = chain]
        /\ reqExpected' = [reqExpected EXCEPT ![c] = Ids(SelectSeq(reqQueue, NotNull))]
        /\ reqRuns' = [reqRuns EXCEPT ![c] = @ + 1]
        /\ IF out.ok
           THEN /\ pc' = [pc EXCEPT ![c] = "intercepted"]
                /\ opts' = [opts EXCEPT ![c].trail = out.trail]
                /\ UNCHANGED result
           ELSE /\ pc' = [pc EXCEPT ![c] = "done"]
                /\ result' = [result EXCEPT ![c] = out]
                /\ UNCHANGED opts
  /\ UNCHANGED <<heap, reqQueue, resQueue, resIndex, nextHandler, options,
                 fired, err, invocations, sent, outcomes, settled, resChain,
                 resExpected, resRuns>>
  /\ UNCHANGED retryVars
  /\ UNCHANGED respVars
  /\ UNCHANGED agentVars
  /\ UNCHANGED timeVars
  /\ UNCHANGED prepVars
  /\ UNCHANGED idVars

\* request(), last line: _request is started and the response interceptors
\* are chained onto its promise in one pass over the manager.
BeginRequest(c) ==
  /\ pc[c] = "intercepted"
  /\ resChain' = [resChain EXCEPT ![c] = SelectSeq(IterVisited(resQueue, resIndex), NotNull)]
  /\ resExpected' = [resExpected EXCEPT ![c] = Ids(SelectSeq(resQueue, NotNull))]
  /\ resIndex' = IterIndexAfter(resQueue, resIndex)
  /\ pc' = [pc EXCEPT ![c] = "dispatch"]
  /\ UNCHANGED <<heap, reqQueue, reqIndex, resQueue, nextHandler, options, opts,
                 fired, err, invocations, sent, outcomes, settled, result,
                 reqApplied, reqExpected, reqRuns, resRuns>>
  /\ UNCHANGED retryVars
  /\ UNCHANGED respVars
  /\ UNCHANGED agentVars
  /\ UNCHANGED timeVars
  /\ UNCHANGED prepVars
  /\ UNCHANGED idVars

\* ---------------------------------------------------------------- _request
\* what the transport can answer to the next invocation of call c
TransportOutcomes(c) ==
  CASE fired[c] = "user" -> {"AbortError"}
    [] fired[c] = "timeout" -> {"TimeoutError"}
    [] OTHER -> {"200", "404", "500", "ENOTFOUND"}
                  \cup (IF opts[c].signal \in {"user", "any"} THEN {"AbortError"} ELSE {})
                  \cup (IF opts[c].signal \in {"timeout", "any"} THEN {"TimeoutError"} ELSE {})

IsStatus(o) == o \in {"200", "404", "500"}
StatusOf(o) == CASE o = "200" -> 200 [] o = "404" -> 404 [] o = "500" -> 500 [] OTHER -> 0
CauseOf(o) ==
  CASE o \in {"AbortError", "TimeoutError"} -> DomException(o)
    [] o = "ENOTFOUND" -> NodeError(o)
    [] OTHER -> NoCause
FiredAfter(f, o) ==
  CASE o = "AbortError" -> "user" [] o = "TimeoutError" -> "timeout" [] OTHER -> f

\* what the transport is handed: the live headers, url and body
Sent(h, config) ==
  [authorization |-> h[config.headers], token |-> h[config.url],
   body |-> Deref(h, config.body),
   method |-> config.method, agent |-> config.agent, boundary |-> config.boundary,
   attempt |-> OrDefault(config.retryConfig.currentRetryAttempt, 0)]

TypeErrorCause == [type |-> "Error", name |-> "TypeError", code |-> ""]

\* getResponseData, the first statement: the declared Content-Length is over
\* a maxContentLength that is set (and truthy)
LimitExceeded(config, declared) ==
  /\ config.maxContentLength # Undef
  /\ config.maxContentLength # 0
  /\ declared # Undef
  /\ config.maxContentLength < declared

\* _request, on a status that validateStatus rejects with responseType
\* 'stream': `for await (const chunk of opts.data)` iterates the data of the
\* request.  Without data, or with a plain object, the loop throws a
\* TypeError; an iterable (URLSearchParams) is read to its end.
DrainedFrom(config) ==
  IF IsRef(config.data) THEN "requestData" ELSE "TypeError"

\* JSON.parse of the body text: it throws on text that is not JSON
Parses(body) == body = "json"

\* (variant for comparison: the Content-Type is compared as it is written)
GetResponseDataFromContentType_CaseSensitive(contentType, body) ==
  IF contentType = NoContentType THEN "text"
  ELSE IF Includes(contentType, ApplicationJson)
       THEN (IF Parses(body) THEN "parsed" ELSE "text")
       ELSE IF StartsWith(contentType, <<"t", "e", "x", "t", "/">>) THEN "text"
       ELSE "blob"

\* getResponseDataFromContentType: what the data of the response is
GetResponseDataFromContentType(contentType, body) ==
  IF contentType = NoContentType THEN "text"
  ELSE LET lower == ToLowerCase(contentType) IN
       IF Includes(lower, ApplicationJson)
       THEN (IF Parses(body) THEN "parsed" ELSE "text")
       ELSE IF StartsWith(lower, <<"t", "e", "x", "t", "/">>) THEN "text"
       ELSE "blob"

\* getResponseData, the switch on responseType; res.json() throws a
\* SyntaxError on a body that is not JSON
GetResponseData(config, contentType, body) ==
  CASE config.responseType = "stream" -> "stream"
    [] config.responseType = "json" ->
         (IF Parses(body) THEN "parsed" ELSE "SyntaxError")
    [] config.responseType \in {"text", "blob", "arraybuffer"} -> config.responseType
    [] OTHER -> GetResponseDataFromContentType(contentType, body)

\* the data that the adapter obtained from the response of an attempt
Decoded(config, o, declared, contentType, body) ==
  IF ~IsStatus(o) \/ LimitExceeded(config, declared) THEN "none"
  ELSE GetResponseData(config, contentType, body)

\* the adapter throws while it decodes the body
DecodeFails(config, o, declared, contentType, body) ==
  Decoded(config, o, declared, contentType, body) = "SyntaxError"

SyntaxErrorCause == [type |-> "Error", name |-> "SyntaxError", code |-> ""]

\* what getResponseData did with the body of the response
BodyOp(config, o, declared) ==
  CASE ~IsStatus(o) -> "none"
    [] LimitExceeded(config, declared) -> "none"
    [] config.responseType = "stream" -> "handed"
    [] OTHER -> "read"

\* the attempt throws: no response, a Content-Length over the limit, or a
\* status that validateStatus rejects
AttemptFails(config, o, declared) ==
  \/ ~IsStatus(o)
  \/ LimitExceeded(config, declared)
  \/ ~ValidateStatus(StatusOf(o))

\* ... and the error that _request's catch block then holds
AttemptError(config, o, declared, hs, n) ==
  LET seen == IF config.errorRedactor THEN RedactResponseHeaders(hs) ELSE hs IN
  CASE ~IsStatus(o) -> GaxiosError(o, config, FALSE, 0, CauseOf(o), n)
    [] LimitExceeded(config, declared) ->
         [GaxiosError("Content-Length is over the limit", config, TRUE,
                      StatusOf(o), NoCause, n)
            EXCEPT !.data = "unread", !.headers = seen]
    [] config.responseType = "stream" /\ DrainedFrom(config) = "TypeError" ->
         GaxiosError("TypeError", config, FALSE, 0, TypeErrorCause, n)
    [] config.responseType = "stream" ->
         [GaxiosError(o, config, TRUE, StatusOf(o), NoCause, n)
            EXCEPT !.data = DrainedFrom(config), !.headers = seen]
    [] OTHER ->
         [GaxiosError(o, config, TRUE, StatusOf(o), NoCause, n)
            EXCEPT !.data = "body", !.headers = seen]

\* _request, the try block: one invocation of the adapter (fetch, then
\* getResponseData), then validateStatus; whatever is thrown is a GaxiosError
\* or is wrapped into one.
Attempt(c) ==
  /\ pc[c] = "dispatch"
  /\ invocations[c] < AttemptCap
  /\ \E o \in TransportOutcomes(c), d \in options[c].latencies :
       LET declared == options[c].contentLength
           contentType == options[c].responseContentType
           body == options[c].responseBody
       IN
       /\ invocations' = [invocations EXCEPT ![c] = @ + 1]
       /\ startedAt' = [startedAt EXCEPT ![c] = Append(@, elapsed[c])]
       /\ elapsed' = [elapsed EXCEPT ![c] = @ + d]
       /\ sent' = [sent EXCEPT ![c] = Append(@, Sent(heap, opts[c]))]
       /\ outcomes' = [outcomes EXCEPT ![c] = Append(@, o)]
       /\ fired' = [fired EXCEPT ![c] = FiredAfter(@, o)]
       /\ bodyOps' = [bodyOps EXCEPT ![c] = Append(@, BodyOp(opts[c], o, declared))]
       /\ decoded' = [decoded EXCEPT ![c] =
                        Append(@, Decoded(opts[c], o, declared, contentType, body))]
       /\ IF /\ ~AttemptFails(opts[c], o, declared)
             /\ ~DecodeFails(opts[c], o, declared, contentType, body)
          THEN /\ settled' = [settled EXCEPT ![c] = Fulfilled(StatusOf(o))]
               /\ pc' = [pc EXCEPT ![c] = "settled"]
               /\ UNCHANGED <<err, heap>>
          ELSE IF ConstructorThrows(opts[c])
          THEN /\ settled' = [settled EXCEPT ![c] =
                                Rejected(PlainError(RedactorFailure))]
               /\ pc' = [pc EXCEPT ![c] = "settled"]
               /\ UNCHANGED <<err, heap>>
          ELSE /\ err' = [err EXCEPT ![c] =
                            IF DecodeFails(opts[c], o, declared, contentType, body)
                            THEN GaxiosError("SyntaxError", opts[c], FALSE, 0,
                                             SyntaxErrorCause, invocations[c] + 1)
                            ELSE AttemptError(opts[c], o, declared,
                                              ResponseHeaders(options[c]),
                                              invocations[c] + 1)]
               /\ heap' = GaxiosErrorHeap(heap, opts[c])
               /\ pc' = [pc EXCEPT ![c] = "evaluate"]
               /\ UNCHANGED settled
  /\ UNCHANGED <<instanceVars, icptVars, options, opts, result>>
  /\ UNCHANGED retryVars
  /\ UNCHANGED agentVars
  /\ UNCHANGED sleeps
  /\ UNCHANGED prepVars
  /\ UNCHANGED idVars

\* mutant: the callback is handed the counter as it was before the increment
Notice_BeforeIncrement(e, inv, slept) ==
  [attempt |-> e.config.retryConfig.currentRetryAttempt - 1,
   invocations |-> inv, backoffs |-> slept]

\* what an onRetryAttempt invocation observes
Notice(e, inv, slept) ==
  [attempt |-> e.config.retryConfig.currentRetryAttempt,
   invocations |-> inv, backoffs |-> slept]

\* _request, the catch block: getRetryConfig evaluates the failure.  On a
\* retry the counter of the error's config is incremented and the caller's
\* onRetryAttempt, if any, is invoked and awaited; then comes the backoff.
\* Otherwise the error is thrown.
RetryDecision(c) ==
  /\ pc[c] = "evaluate"
  /\ LET r == GetRetryConfigAt(err[c], elapsed[c])
         e == [err[c] EXCEPT !.config = r.config]
         rc == WithRetryDefaults(err[c].config.retryConfig)
     IN /\ err' = [err EXCEPT ![c] = e]
        /\ sleeps' = [sleeps EXCEPT ![c] =
                        IF r.shouldRetry
                        THEN Append(@, NextRetryDelay(rc, elapsed[c])) ELSE @]
        /\ IF r.shouldRetry
           THEN /\ IF e.config.retryConfig.onRetryAttempt # "none"
                   THEN /\ notified' = [notified EXCEPT ![c] =
                                          Append(@, Notice(e, invocations[c], backoffs[c]))]
                        /\ pc' = [pc EXCEPT ![c] = "notify"]
                   ELSE /\ pc' = [pc EXCEPT ![c] = "backoff"]
                        /\ UNCHANGED notified
                /\ UNCHANGED settled
           ELSE /\ settled' = [settled EXCEPT ![c] = Rejected(e)]
                /\ pc' = [pc EXCEPT ![c] = "settled"]
                /\ UNCHANGED notified
  /\ UNCHANGED <<heap, instanceVars, icptVars, options, opts, fired, invocations,
                 sent, outcomes, result, backoffs>>
  /\ UNCHANGED respVars
  /\ UNCHANGED agentVars
  /\ UNCHANGED <<elapsed, startedAt>>
  /\ UNCHANGED prepVars
  /\ UNCHANGED idVars

CallbackFailure == "onRetryAttempt failed"

\* (variant for comparison: the failure of the callback rejects
\* getRetryConfig, and with it _request, whose catch block awaits it
\* unguarded)
OnRetryAttemptFailed_Propagates(c) ==
  /\ pc[c] = "notify"
  /\ err[c].config.retryConfig.onRetryAttempt \in {"throws", "rejects"}
  /\ pc' = [pc EXCEPT ![c] = "settled"]
  /\ settled' = [settled EXCEPT ![c] = Rejected(PlainError(CallbackFailure))]
  /\ UNCHANGED <<heap, instanceVars, icptVars, options, opts, fired, err,
                 invocations, sent, outcomes, result, retryVars>>
  /\ UNCHANGED respVars
  /\ UNCHANGED agentVars
  /\ UNCHANGED timeVars
  /\ UNCHANGED prepVars
  /\ UNCHANGED idVars

\* getRetryConfig: onRetryAttempt has thrown ("throws") or its promise has
\* rejected ("rejects"); the failure is dropped and the retry goes on
OnRetryAttemptFailed(c) ==
  /\ pc[c] = "notify"
  /\ err[c].config.retryConfig.onRetryAttempt \in {"throws", "rejects"}
  /\ pc' = [pc EXCEPT ![c] = "backoff"]
  /\ UNCHANGED <<heap, instanceVars, icptVars, options, opts, fired, err,
                 invocations, sent, outcomes, settled, result, retryVars>>
  /\ UNCHANGED respVars
  /\ UNCHANGED agentVars
  /\ UNCHANGED timeVars
  /\ UNCHANGED prepVars
  /\ UNCHANGED idVars

\* getRetryConfig: the promise of onRetryAttempt has resolved
OnRetryAttemptResolved(c) ==
  /\ pc[c] = "notify"
  /\ err[c].config.retryConfig.onRetryAttempt \in {"sync", "async"}
  /\ pc' = [pc EXCEPT ![c] = "backoff"]
  /\ UNCHANGED <<heap, instanceVars, icptVars, options, opts, fired, err,
                 invocations, sent, outcomes, settled, result, retryVars>>
  /\ UNCHANGED respVars
  /\ UNCHANGED agentVars
  /\ UNCHANGED timeVars
  /\ UNCHANGED prepVars
  /\ UNCHANGED idVars

\* the backoff has elapsed and getRetryConfig returns: the retry state is
\* carried over to the live config and _request is invoked again
Redispatch(c) ==
  /\ pc[c] = "backoff"
  /\ backoffs' = [backoffs EXCEPT ![c] = @ + 1]
  /\ elapsed' = [elapsed EXCEPT ![c] = @ + Last(sleeps[c])]
  /\ opts' = [opts EXCEPT ![c] = CarryRetryState(@, err[c].config)]
  /\ pc' = [pc EXCEPT ![c] = RetryResume]
  /\ UNCHANGED <<heap, instanceVars, icptVars, options, fired, err, invocations,
                 sent, outcomes, settled, result, notified>>
  /\ UNCHANGED respVars
  /\ UNCHANGED agentVars
  /\ UNCHANGED <<sleeps, startedAt>>
  /\ UNCHANGED prepVars
  /\ UNCHANGED idVars

\* the response interceptors chained in BeginRequest run on the outcome
ApplyResponseInterceptors(c) ==
  /\ pc[c] = "settled"
  /\ result' = [result EXCEPT ![c] = RunChain(resChain[c], settled[c])]
  /\ resRuns' = [resRuns EXCEPT ![c] = @ + 1]
  /\ pc' = [pc EXCEPT ![c] = "done"]
  /\ UNCHANGED <<heap, instanceVars, options, opts, fired, err, invocations, sent,
                 outcomes, settled, reqApplied, reqExpected, resChain,
                 resExpected, reqRuns>>
  /\ UNCHANGED retryVars
  /\ UNCHANGED respVars
  /\ UNCHANGED agentVars
  /\ UNCHANGED timeVars
  /\ UNCHANGED prepVars
  /\ UNCHANGED idVars

\* ------------------------------------------------- interceptor management
\* addInterceptor / removeInterceptor / removeAll on the request manager
AddRequestInterceptor(kind) ==
  /\ nextHandler <= MaxHandlers
  /\ reqQueue' = Append(reqQueue, Handler(nextHandler, kind, Len(reqQueue)))
  /\ nextHandler' = nextHandler + 1
  /\ UNCHANGED <<heap, reqIndex, resQueue, resIndex, callVars, icptVars>>
  /\ UNCHANGED retryVars
  /\ UNCHANGED respVars
  /\ UNCHANGED agentVars
  /\ UNCHANGED timeVars
  /\ UNCHANGED prepVars
  /\ UNCHANGED idVars

\* mutant: the entry is taken out of the array and the later ones move up
RemoveRequestInterceptor_Splice(id) ==
  /\ id + 1 \in 1..Len(reqQueue)
  /\ reqQueue[id + 1] # NullEntry
  /\ reqQueue' = SubSeq(reqQueue, 1, id) \o SubSeq(reqQueue, id + 2, Len(reqQueue))
  /\ UNCHANGED <<heap, reqIndex, resQueue, resIndex, nextHandler, callVars, icptVars>>
  /\ UNCHANGED retryVars
  /\ UNCHANGED respVars
  /\ UNCHANGED agentVars
  /\ UNCHANGED timeVars
  /\ UNCHANGED prepVars
  /\ UNCHANGED idVars

RemoveRequestInterceptor(id) ==
  /\ id + 1 \in 1..Len(reqQueue)
  /\ reqQueue[id + 1] # NullEntry
  /\ reqQueue' = [reqQueue EXCEPT ![id + 1] = NullEntry]
  /\ UNCHANGED <<heap, reqIndex, resQueue, resIndex, nextHandler, callVars, icptVars>>
  /\ UNCHANGED retryVars
  /\ UNCHANGED respVars
  /\ UNCHANGED agentVars
  /\ UNCHANGED timeVars
  /\ UNCHANGED prepVars
  /\ UNCHANGED idVars

\* removeAll: the queue is replaced by an empty array, so that the next add
\* returns 0 again
RemoveAllRequestInterceptors ==
  /\ reqQueue # << >>
  /\ reqQueue' = << >>
  /\ retired' = retired \cup {p - 1 : p \in 1..Len(reqQueue)}
  /\ UNCHANGED <<heap, reqIndex, resQueue, resIndex, nextHandler, callVars, icptVars>>
  /\ UNCHANGED retryVars
  /\ UNCHANGED respVars
  /\ UNCHANGED agentVars
  /\ UNCHANGED timeVars
  /\ UNCHANGED prepVars

AddResponseInterceptor(kind) ==
  /\ nextHandler <= MaxHandlers
  /\ resQueue' = Append(resQueue, Handler(nextHandler, kind, Len(resQueue)))
  /\ nextHandler' = nextHandler + 1
  /\ UNCHANGED <<heap, reqQueue, reqIndex, resIndex, callVars, icptVars>>
  /\ UNCHANGED retryVars
  /\ UNCHANGED respVars
  /\ UNCHANGED agentVars
  /\ UNCHANGED timeVars
  /\ UNCHANGED prepVars
  /\ UNCHANGED idVars

RemoveResponseInterceptor(id) ==
  /\ id + 1 \in 1..Len(resQueue)
  /\ resQueue[id + 1] # NullEntry
  /\ resQueue' = [resQueue EXCEPT ![id + 1] = NullEntry]
  /\ UNCHANGED <<heap, reqQueue, reqIndex, resIndex, nextHandler, callVars, icptVars>>
  /\ UNCHANGED retryVars
  /\ UNCHANGED respVars
  /\ UNCHANGED agentVars
  /\ UNCHANGED timeVars
  /\ UNCHANGED prepVars
  /\ UNCHANGED idVars

RemoveAllResponseInterceptors ==
  /\ resQueue # << >>
  /\ resQueue' = << >>
  /\ UNCHANGED <<heap, reqQueue, reqIndex, resIndex, nextHandler, callVars, icptVars>>
  /\ UNCHANGED retryVars
  /\ UNCHANGED respVars
  /\ UNCHANGED agentVars
  /\ UNCHANGED timeVars
  /\ UNCHANGED prepVars
  /\ UNCHANGED idVars

\* ------------------------------------------------------------ specifications
\* One logical request with the retry options varied.
RetryOptions ==
  {MakeOptions(TRUE, m, r, rc, sig, t, FALSE, "none", TRUE) :
     m \in Methods, r \in BOOLEAN,
     rc \in {NoRetryConfig} \cup
            RetryConfigInputs({Undef} \cup 0..MaxRetry,
                              {Undef} \cup 0..MaxNoResponseRetries,
                              {UndefMethods, {"GET", "POST"}},
                              {UndefRanges, << <<404, 404>> >>}),
     sig \in BOOLEAN, t \in BOOLEAN}

\* the calls of a run in which only call 1 is made
OnlyFirst(optionSet) ==
  {[c \in Calls |-> IF c = 1 THEN o ELSE NoOptions] : o \in optionSet}

\* the same options when neither they nor the instance defaults hold a url
UrlLessOptions == {[o EXCEPT !.url = FALSE] : o \in RetryOptions}

Init == InitWith(OnlyFirst(RetryOptions \cup UrlLessOptions))

Pipeline(c) ==
  \/ Request(c)
  \/ ApplyRequestInterceptors(c)
  \/ BeginRequest(c)
  \/ Attempt(c)
  \/ RetryDecision(c)
  \/ Redispatch(c)
  \/ ApplyResponseInterceptors(c)

Next == Pipeline(1)

Spec == Init /\ [][Next]_vars


\* Calls on one instance whose interceptors are added and removed meanwhile.
InterceptorOptions ==
  {MakeOptions(TRUE, "GET", FALSE,
               [NoRetryConfig EXCEPT !.present = TRUE, !.retry = 1],
               FALSE, FALSE, FALSE, "none", TRUE)}

InitInterceptors == InitWith([Calls -> InterceptorOptions])

\* the calls are made one after the other
Turn(c) == \A d \in Calls : d < c => pc[d] = "done"

NextInterceptors ==
  \/ \E c \in Calls : Turn(c) /\ Pipeline(c)
  \/ \E kind \in HandlerKinds : AddRequestInterceptor(kind)
  \/ \E kind \in HandlerKinds : AddResponseInterceptor(kind)
  \/ \E id \in 0..(MaxHandlers - 1) : RemoveRequestInterceptor(id)
  \/ \E id \in 0..(MaxHandlers - 1) : RemoveResponseInterceptor(id)
  \/ RemoveAllRequestInterceptors
  \/ RemoveAllResponseInterceptors

SpecInterceptors == InitInterceptors /\ [][NextInterceptors]_vars

\* One logical request, retried, on an instance whose interceptors are added
\* and removed meanwhile.
InitChains == InitWith(OnlyFirst(InterceptorOptions))

NextChains ==
  \/ Pipeline(1)
  \/ \E kind \in HandlerKinds : AddRequestInterceptor(kind)
  \/ \E kind \in HandlerKinds : AddResponseInterceptor(kind)
  \/ \E id \in 0..(MaxHandlers - 1) : RemoveRequestInterceptor(id)
  \/ \E id \in 0..(MaxHandlers - 1) : RemoveResponseInterceptor(id)
  \/ RemoveAllRequestInterceptors
  \/ RemoveAllResponseInterceptors

SpecChains == InitChains /\ [][NextChains]_vars

\* The interceptor managers of an instance under add and remove, while a
\* request is made.
InitManagers == InitWith(OnlyFirst(InterceptorOptions))

NextManagers ==
  \/ Pipeline(1)
  \/ \E kind \in HandlerKinds : AddRequestInterceptor(kind)
  \/ \E kind \in HandlerKinds : AddResponseInterceptor(kind)
  \/ \E id \in 0..(MaxHandlers - 1) : RemoveRequestInterceptor(id)
  \/ \E id \in 0..(MaxHandlers - 1) : RemoveResponseInterceptor(id)

SpecManagers == InitManagers /\ [][NextManagers]_vars

\* One logical request whose retryConfig carries the caller's callbacks.
CallbackOptions ==
  {MakeOptions(TRUE, m, FALSE,
               [NoRetryConfig EXCEPT !.present = TRUE, !.retry = r,
                                     !.shouldRetry = p, !.onRetryAttempt = n],
               FALSE, FALSE, FALSE, "none", TRUE) :
     m \in Methods, r \in {Undef, 0, MaxRetry},
     p \in {"none", "yes", "no"}, n \in {"none", "sync", "async"}}

InitCallbacks == InitWith(OnlyFirst(CallbackOptions))

NextCallbacks ==
  \/ Pipeline(1)
  \/ OnRetryAttemptResolved(1)

SpecCallbacks == InitCallbacks /\ [][NextCallbacks]_vars

\* One call whose response is checked against maxContentLength and whose
\* body is delivered as parsed data or as a stream.
SmallBody == 1
LargeBody == 3

ResponseOptions ==
  {[MakeOptions(TRUE, m, FALSE,
                [NoRetryConfig EXCEPT !.present = TRUE, !.retry = r],
                FALSE, FALSE, FALSE, dk, TRUE)
      EXCEPT !.responseType = rt, !.maxContentLength = l,
             !.contentLength = n] :
     m \in Methods, r \in {0, 1}, dk \in {"none", "plain", "usp"},
     rt \in {"json", "stream"}, l \in {Undef, 0, SmallBody, LargeBody},
     n \in {Undef, SmallBody, LargeBody}}

InitResponse == InitWith(OnlyFirst(ResponseOptions))

NextResponse == Pipeline(1)

SpecResponse == InitResponse /\ [][NextResponse]_vars

\* One call whose request and response carry headers of several names.
HeaderOptions ==
  {[MakeOptions(TRUE, "GET", FALSE,
                [NoRetryConfig EXCEPT !.present = TRUE, !.retry = 1],
                FALSE, FALSE, sens, "none", red)
      EXCEPT !.authName = a, !.headers = hs, !.responseHeaders = rs] :
     sens \in BOOLEAN, red \in BOOLEAN, a \in AuthorizationNames,
     hs \in SUBSET OtherHeaderNames,
     rs \in SUBSET ({"AUTHORIZATION", "random"})}

InitHeaders == InitWith(OnlyFirst(HeaderOptions))

NextHeaders == Pipeline(1)

SpecHeaders == InitHeaders /\ [][NextHeaders]_vars

\* One call whose errorRedactor is the default one, a function of the
\* caller that throws, or disabled.
RedactorOptions ==
  {[MakeOptions(TRUE, m, FALSE,
                [NoRetryConfig EXCEPT !.present = TRUE, !.retry = r],
                FALSE, FALSE, sens, dk, red)
      EXCEPT !.redactorThrows = th] :
     m \in Methods, r \in {0, 1}, sens \in BOOLEAN,
     dk \in {"none", "plain"}, red \in BOOLEAN, th \in BOOLEAN}

InitRedactor == InitWith(OnlyFirst(RedactorOptions))

NextRedactor == Pipeline(1)

SpecRedactor == InitRedactor /\ [][NextRedactor]_vars

\* Concurrent calls on one instance that go through a proxy, given as a
\* string or as a URL object (one object shared by the calls, or another
\* object for the same url), or that present a client certificate.
FakeProxy == "https://fake.proxy"

AgentCacheOptions ==
  {[MakeOptions(TRUE, "GET", FALSE,
                [NoRetryConfig EXCEPT !.present = TRUE, !.retry = 1],
                FALSE, FALSE, FALSE, "none", TRUE)
      EXCEPT !.proxy = p, !.cert = ck[1], !.key = ck[2]] :
     p \in {NoProxy, StringProxy(FakeProxy), UrlProxy(FakeProxy, 1),
            UrlProxy(FakeProxy, 2)},
     ck \in {<<"", "">>, <<"cert", "key">>}}

InitAgentCache == InitWith([Calls -> AgentCacheOptions])

NextAgentCache == \E c \in Calls : Pipeline(c)

SpecAgentCache == InitAgentCache /\ [][NextAgentCache]_vars

\* One call for which an agent, a proxy (in the options and in each of the
\* four environment variables), a no-proxy rule and a certificate may be
\* configured.
ProxyEnvs ==
  {[NoEnv EXCEPT !.HTTPS_PROXY = a, !.https_proxy = b, !.HTTP_PROXY = c,
                 !.http_proxy = d, !.NO_PROXY = n] :
     a \in {"", "https://env1.proxy"}, b \in {"", "https://env2.proxy"},
     c \in {"", "http://env3.proxy"}, d \in {"", "http://env4.proxy"},
     n \in {UnsetVar, OtIo}}

ProxyOptions ==
  {[MakeOptions(TRUE, "GET", FALSE,
                [NoRetryConfig EXCEPT !.present = TRUE, !.retry = 1],
                FALSE, FALSE, FALSE, "none", TRUE)
      EXCEPT !.agent = a, !.proxy = p, !.cert = ck[1], !.key = ck[2],
             !.target = t, !.noProxy = np] :
     a \in {"none", "user"}, p \in {NoProxy, StringProxy(FakeProxy)},
     ck \in {<<"", "">>, <<"cert", "">>, <<"", "key">>, <<"cert", "key">>},
     t \in {Url(SubExIo, <<"/">>), Url(OtIo, <<"/">>)},
     np \in {<< >>, <<StringRule(<<"*", ".">> \o ExIo)>>}}

InitProxy == InitWithEnv(OnlyFirst(ProxyOptions), ProxyEnvs)

NextProxy == Pipeline(1)

SpecProxy == InitProxy /\ [][NextProxy]_vars

\* One call through a proxy with no-proxy rules of every kind, in the
\* noProxy option and in the environment.
DotExIo == <<".">> \o ExIo
StarDotExIo == <<"*">> \o DotExIo
OtAndDotEx == OtIo \o <<",", " ">> \o DotExIo \o <<" ">>

NoProxyRules ==
  {StringRule(StarDotExIo), StringRule(DotExIo), StringRule(ExIo),
   StringRule(Origin(Url(ExIo, <<"/">>))),
   StringRule(Href(Url(ExIo, <<"/", "p">>))),
   UrlRule(Url(ExIo, <<"/", "p">>)),
   RegExpRule({Href(u) : u \in {t \in Targets : t.hostname # OtIo}})}

NoProxyEnvs ==
  {[NoEnv EXCEPT !.HTTPS_PROXY = a, !.NO_PROXY = n, !.no_proxy = m] :
     a \in {"", "https://env1.proxy"},
     n \in {UnsetVar, << >>, OtAndDotEx}, m \in {UnsetVar, ExIo}}

NoProxyOptions ==
  {[MakeOptions(TRUE, "GET", FALSE,
                [NoRetryConfig EXCEPT !.present = TRUE, !.retry = 1],
                FALSE, FALSE, FALSE, "none", TRUE)
      EXCEPT !.proxy = p, !.target = t, !.noProxy = np] :
     p \in {NoProxy, StringProxy(FakeProxy)}, t \in Targets,
     np \in {<< >>} \cup {<<r>> : r \in NoProxyRules}
            \cup {<<StringRule(OtIo), r>> : r \in NoProxyRules}}

InitNoProxy == InitWithEnv(OnlyFirst(NoProxyOptions), NoProxyEnvs)

NextNoProxy == Pipeline(1)

SpecNoProxy == InitNoProxy /\ [][NextNoProxy]_vars

\* One call with a deadline: attempts take time, and so do the sleeps
\* between them.
DeadlineOptions ==
  {[MakeOptions(TRUE, "GET", FALSE,
                [NoRetryConfig EXCEPT !.present = TRUE, !.retry = MaxRetry,
                                      !.noResponseRetries = MaxRetry,
                                      !.retryDelay = rd, !.totalTimeout = tt,
                                      !.maxRetryDelay = mx],
                FALSE, FALSE, FALSE, "none", TRUE)
      EXCEPT !.latencies = {0, 1, 2}] :
     rd \in {1, 2}, tt \in {Undef, 0, 3, 5}, mx \in {Undef, 3}}

InitDeadline == InitWith(OnlyFirst(DeadlineOptions))

NextDeadline == Pipeline(1)

SpecDeadline == InitDeadline /\ [][NextDeadline]_vars

\* The same options prepared twice on one instance: every call is made
\* with the options of the first.
PrepareOptions ==
  {[MakeOptions(TRUE, m, FALSE,
                [NoRetryConfig EXCEPT !.present = TRUE, !.retry = 1],
                FALSE, FALSE, sens, dk, TRUE)
      EXCEPT !.headers = hs, !.multipart = mp, !.target = t] :
     m \in Methods, sens \in BOOLEAN, dk \in {"none", "plain"},
     hs \in {{}, {"random"}}, mp \in BOOLEAN,
     t \in {DefaultTarget, Url(ExIo, <<"/", "p">>)}}

InitPrepare == InitWith({[c \in Calls |-> o] : o \in PrepareOptions})

NextPrepare == (\E c \in Calls : Request(c)) \/ Pipeline(1)

SpecPrepare == InitPrepare /\ [][NextPrepare]_vars

\* One call whose headers are merged over the headers of the instance
\* defaults; both name headers in several casings and repeat names.
MergeNames == {"Apple", "apple", "figgy", "Set-Cookie"}
MergeInits(values) ==
  LET entry == {<<n, v>> : n \in MergeNames, v \in values}
  IN {<< >>} \cup {<<e>> : e \in entry} \cup {<<e, f>> : e \in entry, f \in entry}

MergeOptions ==
  {[MakeOptions(TRUE, "GET", FALSE,
                [NoRetryConfig EXCEPT !.present = TRUE, !.retry = 1],
                FALSE, FALSE, FALSE, "none", TRUE)
      EXCEPT !.headerInit = init] : init \in MergeInits({"b", "c"})}

InitMerge ==
  InitWithDefaults(OnlyFirst(MergeOptions), {NoEnv},
                   {[headers |-> init] : init \in MergeInits({"a"})})

NextMerge == Pipeline(1)

SpecMerge == InitMerge /\ [][NextMerge]_vars

\* One call whose response declares some Content-Type, or none, and
\* carries JSON or other text; the responseType is left out or given.
SniffOptions ==
  {[MakeOptions(TRUE, m, FALSE,
                [NoRetryConfig EXCEPT !.present = TRUE, !.retry = 1],
                FALSE, FALSE, FALSE, "none", TRUE)
      EXCEPT !.responseType = rt, !.responseContentType = ct,
             !.responseBody = b] :
     m \in {"GET", "POST"}, rt \in {"unknown", "text", "json"},
     ct \in ContentTypes, b \in {"json", "text"}}

InitSniff == InitWith(OnlyFirst(SniffOptions))

NextSniff == Pipeline(1)

SpecSniff == InitSniff /\ [][NextSniff]_vars

\* One call with an onRetryAttempt callback that resolves, throws or
\* rejects.
CallbackErrorOptions ==
  {MakeOptions(TRUE, m, FALSE,
               [NoRetryConfig EXCEPT !.present = TRUE, !.retry = r,
                                     !.onRetryAttempt = n],
               FALSE, FALSE, FALSE, "none", TRUE) :
     m \in Methods, r \in {Undef, 0, MaxRetry},
     n \in {"async", "throws", "rejects"}}

InitCallbackErrors == InitWith(OnlyFirst(CallbackErrorOptions))

NextCallbackErrors ==
  \/ Pipeline(1)
  \/ OnRetryAttemptResolved(1)
  \/ OnRetryAttemptFailed(1)

SpecCallbackErrors == InitCallbackErrors /\ [][NextCallbackErrors]_vars

\* One call with some kind of data, with or without a multipart option,
\* and with a Content-Type header of the caller or none.
BodyContentTypes == {FormUrlEncoded, FormUrlEncodedUpper, FormUrlEncodedCharset, JsonPatch}

BodyOptions ==
  {[MakeOptions(TRUE, "POST", FALSE,
                [NoRetryConfig EXCEPT !.present = TRUE, !.retry = 1,
                                      !.httpMethodsToRetry = {"GET", "POST"}],
                FALSE, FALSE, FALSE, dk, TRUE)
      EXCEPT !.multipart = mp, !.headerInit = init] :
     dk \in {"none", "plain", "string", "usp"}, mp \in BOOLEAN,
     init \in {<< >>} \cup {<<<<n, v>>>> : n \in {"Content-Type", "content-type"},
                                          v \in BodyContentTypes}}

InitBody == InitWith(OnlyFirst(BodyOptions))

NextBody == Pipeline(1)

SpecBody == InitBody /\ [][NextBody]_vars

\* One call under the scheduling the runtime guarantees: every transport
\* call settles, every callback settles, every timer fires, and a settled
\* promise's continuation runs.
TerminationOptions ==
  {MakeOptions(TRUE, m, FALSE,
               [NoRetryConfig EXCEPT !.present = TRUE, !.retry = r,
                                     !.noResponseRetries = n,
                                     !.onRetryAttempt = cb],
               FALSE, t, FALSE, "none", TRUE) :
     m \in Methods, r \in {Undef, MaxRetry},
     n \in {Undef, MaxNoResponseRetries},
     cb \in {"none", "async", "throws"}, t \in BOOLEAN}

InitTermination == InitWith(OnlyFirst(TerminationOptions))

NextTermination ==
  \/ Pipeline(1)
  \/ OnRetryAttemptResolved(1)
  \/ OnRetryAttemptFailed(1)

SpecTermination ==
  InitTermination /\ [][NextTermination]_vars /\ WF_vars(NextTermination)

\* Calls of one instance through the same proxy, or without one, with
\* different client certificates and keys.
CredentialOptions ==
  {[MakeOptions(TRUE, "GET", FALSE,
                [NoRetryConfig EXCEPT !.present = TRUE, !.retry = 1],
                FALSE, FALSE, FALSE, "none", TRUE)
      EXCEPT !.proxy = p, !.cert = ck[1], !.key = ck[2]] :
     p \in {NoProxy, StringProxy(FakeProxy)},
     ck \in {<<"", "">>, <<"cert", "key">>, <<"cert2", "key">>, <<"cert2", "key2">>}}

InitCredentials == InitWith([Calls -> CredentialOptions])

NextCredentials == (\E c \in Calls : Request(c)) \/ Pipeline(1)

SpecCredentials == InitCredentials /\ [][NextCredentials]_vars

\* Concurrent calls whose headers, url and data may carry credentials.
RedactionOptions ==
  {MakeOptions(TRUE, "GET", FALSE,
               [NoRetryConfig EXCEPT !.present = TRUE, !.retry = 1],
               FALSE, FALSE, sens, dk, red) :
     sens \in BOOLEAN, dk \in {"none", "plain", "usp"}, red \in BOOLEAN}

InitRedaction == InitWith([Calls -> RedactionOptions])

NextRedaction == \E c \in Calls : Pipeline(c)

SpecRedaction == InitRedaction /\ [][NextRedaction]_vars

\* The same request made twice: by call 1 with the default errorRedactor
\* and by call 2 without any.
RedactionPairOptions ==
  {MakeOptions(TRUE, m, FALSE,
               [NoRetryConfig EXCEPT !.present = TRUE, !.retry = r],
               FALSE, FALSE, sens, dk, TRUE) :
     m \in Methods, r \in {Undef, MaxRetry}, sens \in BOOLEAN,
     dk \in {"none", "plain"}}

InitRedactionPairs ==
  InitWith({[c \in Calls |->
               CASE c = 1 -> o
                 [] c = 2 -> [o EXCEPT !.errorRedactor = FALSE]
                 [] OTHER -> NoOptions] :
              o \in RedactionPairOptions})

NextRedactionPairs == Pipeline(1) \/ Pipeline(2)

SpecRedactionPairs == InitRedactionPairs /\ [][NextRedactionPairs]_vars

\* ---------------------------------------------------------------- claims
IsRejected(r) == ~r.ok /\ r.status # Undef
IsFulfilled(r) == r.ok
Finished(c) == pc[c] \in {"settled", "done"}
\* another attempt has been decided / the retry loop has not settled
Retrying(c) == pc[c] \in {"notify", "backoff", "dispatch"}
InRetryLoop(c) == pc[c] = "evaluate" \/ Retrying(c)

\* the retry policy a caller asked for, read off the options
RetryEnabled(o) == o.retryConfig.present \/ o.retry
RetryBudget(o) == IF RetryEnabled(o) THEN OrDefault(o.retryConfig.retry, 3) ELSE 0
NoResponseBudget(o) == OrDefault(o.retryConfig.noResponseRetries, 2)
MethodsToRetry(o) ==
  IF o.retryConfig.httpMethodsToRetry = UndefMethods
  THEN {"GET", "HEAD", "PUT", "OPTIONS", "DELETE"}
  ELSE o.retryConfig.httpMethodsToRetry
StatusRetryable(o, status) ==
  IF o.retryConfig.statusCodesToRetry = UndefRanges
  THEN (status >= 100 /\ status <= 199) \/ status = 429
         \/ (status >= 500 /\ status <= 599)
  ELSE InRanges(status, o.retryConfig.statusCodesToRetry)
ErrorAttempt(e) == OrDefault(e.config.retryConfig.currentRetryAttempt, 0)

\* C1: a logical request never invokes the transport more than 1 + retry
\* times (once when retry is 0 or retries are not enabled); when the budget
\* is used up by failures the call fails, and a failed call's error carries
\* currentRetryAttempt = the number of retries actually made.
C1_InvocationsWithinRetryBudget ==
  \A c \in Calls :
    LET o == options[c] IN
      /\ invocations[c] <= 1 + RetryBudget(o)
      /\ (Finished(c) /\ invocations[c] = 1 + RetryBudget(o)
            /\ ~(Last(outcomes[c]) = "200"))
           => IsRejected(settled[c])
      /\ (IsRejected(settled[c]) /\ RetryEnabled(o))
           => settled[c].error.config.retryConfig.currentRetryAttempt
                = invocations[c] - 1

C1_Witness ==
  \E c \in Calls :
    /\ pc[c] = "done" /\ IsRejected(result[c])
    /\ RetryBudget(options[c]) >= 2
    /\ invocations[c] = 1 + RetryBudget(options[c])
    /\ ErrorAttempt(result[c].error) = RetryBudget(options[c])

\* C2: with `retry: true` alone and a retryable method, k <= 3 answers of 500
\* followed by a 200 give a resolved call, k + 1 invocations and
\* currentRetryAttempt = k; the call does not stop while only 500s, at most
\* three of them, have been answered.
DefaultPolicy(o) == o.retry /\ ~o.retryConfig.present
AllAre(seq, k, v) == Len(seq) >= k /\ \A i \in 1..k : seq[i] = v

C2_RetriesUntilSuccess ==
  \A c \in Calls :
    (DefaultPolicy(options[c]) /\ options[c].method = "GET") =>
      \A k \in 0..3 :
        /\ (k >= 1 /\ Len(outcomes[c]) = k /\ AllAre(outcomes[c], k, "500"))
             => InRetryLoop(c)
        /\ (Len(outcomes[c]) = k + 1 /\ AllAre(outcomes[c], k, "500")
              /\ outcomes[c][k + 1] = "200")
             => /\ Finished(c)
                /\ settled[c] = Fulfilled(200)
                /\ invocations[c] = k + 1
                /\ OrDefault(opts[c].retryConfig.currentRetryAttempt, 0) = k
                /\ (pc[c] = "done" => result[c] = Fulfilled(200))

C2_Witness ==
  \E c \in Calls :
    /\ DefaultPolicy(options[c]) /\ options[c].method = "GET"
    /\ outcomes[c] = <<"500", "500", "500", "200">>
    /\ pc[c] = "done" /\ result[c] = Fulfilled(200)
    /\ invocations[c] = 4

\* C3: an attempt that failed with an HTTP response is followed by another
\* attempt only if the method is in httpMethodsToRetry and the status is in
\* statusCodesToRetry; otherwise one invocation, currentRetryAttempt 0, failure.
C3_ResponseRetriedOnlyIfMethodAndStatus ==
  \A c \in Calls :
    LET o == options[c] IN
      /\ \A i \in 1..(Len(outcomes[c]) - 1) :
           IsStatus(outcomes[c][i]) =>
             /\ o.method \in MethodsToRetry(o)
             /\ StatusRetryable(o, StatusOf(outcomes[c][i]))
      /\ (/\ Len(outcomes[c]) >= 1
          /\ outcomes[c][1] \in {"404", "500"}
          /\ ~(o.method \in MethodsToRetry(o)
                 /\ StatusRetryable(o, StatusOf(outcomes[c][1]))))
           => /\ invocations[c] = 1
              /\ ~Retrying(c)
              /\ Finished(c) => /\ IsRejected(settled[c])
                                /\ ErrorAttempt(settled[c].error) = 0

C3_Witness ==
  \E c \in Calls :
    /\ options[c].method = "POST" /\ DefaultPolicy(options[c])
    /\ outcomes[c] = <<"500">>
    /\ pc[c] = "done" /\ IsRejected(result[c])
    /\ result[c].error.hasResponse /\ invocations[c] = 1

\* a failure without a response may be retried under these options after
\* n retries
NoResponseEligible(o, n) ==
  /\ RetryEnabled(o)
  /\ o.method \in MethodsToRetry(o)
  /\ n < NoResponseBudget(o)
  /\ n < RetryBudget(o)

\* C4: an attempt ended by the caller's own abort signal is never followed by
\* another attempt and the call fails with code AbortError; an attempt ended
\* by the timeout signal carries the code TimeoutError and is retried whenever
\* a failure without response would be.
C4_CallerAbortNeverRetried ==
  \A c \in Calls :
    /\ \A i \in 1..Len(outcomes[c]) :
         outcomes[c][i] = "AbortError" => (i = Len(outcomes[c]) /\ ~Retrying(c))
    /\ (Finished(c) /\ Len(outcomes[c]) >= 1 /\ Last(outcomes[c]) = "AbortError")
         => (IsRejected(settled[c]) /\ settled[c].error.code = "AbortError")
    /\ (pc[c] = "evaluate" /\ Last(outcomes[c]) = "TimeoutError")
         => err[c].code = "TimeoutError"
    /\ (/\ Len(outcomes[c]) >= 1
        /\ Last(outcomes[c]) = "TimeoutError"
        /\ NoResponseEligible(options[c], Len(outcomes[c]) - 1))
         => InRetryLoop(c)

C4_Witness ==
  \E c \in Calls :
    /\ pc[c] = "done" /\ IsRejected(result[c])
    /\ Len(outcomes[c]) >= 1 /\ Last(outcomes[c]) = "AbortError"
    /\ options[c].method = "GET"
    /\ RetryBudget(options[c]) - ErrorAttempt(result[c].error) >= 1
    /\ NoResponseBudget(options[c]) - ErrorAttempt(result[c].error) >= 1

\* C5: an attempt that failed without an HTTP response is followed by another
\* attempt only if fewer than noResponseRetries (default 2) retries were made
\* before it; with noResponseRetries = 0 there is exactly one invocation.
C5_NoResponseRetriesBudget ==
  \A c \in Calls :
    LET o == options[c] IN
      /\ \A i \in 1..(Len(outcomes[c]) - 1) :
           ~IsStatus(outcomes[c][i]) => (i - 1) < NoResponseBudget(o)
      /\ (/\ NoResponseBudget(o) = 0
          /\ Len(outcomes[c]) >= 1
          /\ ~IsStatus(outcomes[c][1]))
           => (invocations[c] = 1 /\ ~Retrying(c))

C5_Witness ==
  \E c \in Calls :
    /\ outcomes[c] = <<"ENOTFOUND", "ENOTFOUND">>
    /\ NoResponseBudget(options[c]) = 1 /\ RetryBudget(options[c]) >= 2
    /\ pc[c] = "done" /\ IsRejected(result[c])
    /\ ErrorAttempt(result[c].error) = 1

\* the response handlers of call c have been chained onto its _request
ResponseChained(c) ==
  InRetryLoop(c) \/ pc[c] = "settled" \/ (pc[c] = "done" /\ resRuns[c] >= 1)

\* C6: whatever requests were made before and whatever handlers were added
\* or removed, a request() call chains every request handler registered and
\* not removed at that time, and every such response handler.
C6_EveryCallPassesThroughRegisteredInterceptors ==
  \A c \in Calls :
    /\ reqRuns[c] >= 1 => Ids(reqApplied[c]) = reqExpected[c]
    /\ ResponseChained(c) => Ids(resChain[c]) = resExpected[c]

\* C7 as stated: every logical request() call runs the request chain exactly
\* once and the response chain exactly once.
C7_EachChainRunsExactlyOnce ==
  \A c \in Calls : pc[c] = "done" => (reqRuns[c] = 1 /\ resRuns[c] = 1)

\* C7 amended: within one logical request() call whose preparation succeeds
\* the request chain runs exactly once, before the first transport
\* invocation, and not again on a retry; the response chain runs at most
\* once, never while attempts are still being made, and exactly once, on the
\* settled outcome of the retry loop, when the request chain resolved; when
\* the request chain rejects, nothing is dispatched and no response handler
\* runs.
C7_ChainsRunOncePerLogicalRequest ==
  \A c \in Calls :
    /\ reqRuns[c] <= 1 /\ resRuns[c] <= 1
    /\ pc[c] \notin {"idle", "prepared"} => reqRuns[c] = 1
    /\ invocations[c] >= 1 => reqRuns[c] = 1
    /\ (InRetryLoop(c) \/ pc[c] = "settled") => resRuns[c] = 0
    /\ resRuns[c] = 1 =>
         /\ pc[c] = "done"
         /\ settled[c] # Pending
         /\ result[c] = RunChain(resChain[c], settled[c])
    /\ (pc[c] = "done" /\ invocations[c] >= 1) => resRuns[c] = 1
    /\ (pc[c] = "done" /\ invocations[c] = 0) =>
         (resRuns[c] = 0 /\ settled[c] = Pending /\ IsRejected(result[c]))

C7_Witness ==
  \E c \in Calls :
    /\ pc[c] = "done"
    /\ invocations[c] = 2
    /\ Len(reqApplied[c]) >= 1 /\ Len(resChain[c]) >= 1
    /\ reqRuns[c] = 1 /\ resRuns[c] = 1

\* C8: every failure but the missing-URL validation error that reaches the
\* caller of request() or the retry engine is a GaxiosError carrying the
\* request config.
C8_EveryFailureIsGaxiosError ==
  \A c \in Calls :
    /\ pc[c] = "evaluate" => (err[c].isGaxios /\ err[c].config # NoConfig)
    /\ (pc[c] = "done" /\ IsRejected(result[c])
          /\ result[c].error.message # "URL is required.")
         => (result[c].error.isGaxios /\ result[c].error.config # NoConfig)

\* C9: redaction changes only the error's snapshot: the headers, url, data
\* and body of the live prepared config keep their values, and no redaction
\* marker is ever handed to the transport.
C9_RedactionOnlyOnSnapshot ==
  \A c \in Calls :
    /\ \A i \in 1..Len(sent[c]) :
         /\ sent[c][i].authorization # REDACT
         /\ sent[c][i].token # REDACT
         /\ sent[c][i].body # REDACT
    /\ opts[c] # NoConfig =>
         /\ Deref(heap, opts[c].headers) = Secret(options[c])
         /\ Deref(heap, opts[c].url) = Secret(options[c])
         /\ Deref(heap, opts[c].data) # REDACT
         /\ Deref(heap, opts[c].body) # REDACT

\* C10: concurrent calls are isolated: the objects of a prepared config are
\* private to its call, the caller's options are not modified by any call,
\* and a call's first dispatch sends what its caller passed, whatever the
\* other calls did.
C10_ConcurrentCallsIsolated ==
  /\ heap[Ref("data", 0)] # REDACT
  /\ \A c \in Calls :
       /\ Len(sent[c]) >= 1 =>
            /\ sent[c][1].authorization = Secret(options[c])
            /\ sent[c][1].token = Secret(options[c])
            /\ sent[c][1].body # REDACT
            /\ sent[c][1].attempt = 0
       /\ \A d \in Calls \ {c} :
            (opts[c] # NoConfig /\ opts[d] # NoConfig) =>
              /\ opts[c].headers # opts[d].headers
              /\ opts[c].url # opts[d].url

\* C11: a call whose merged options hold no url fails with the 'URL is
\* required.' error; the transport is never invoked for it, no interceptor
\* runs, and the failure is not retried, whatever the retry options.
C11_MissingUrlFailsBeforeTransport ==
  \A c \in Calls :
    ~options[c].url =>
      /\ invocations[c] = 0 /\ sent[c] = << >> /\ outcomes[c] = << >>
      /\ pc[c] \in {"idle", "done"}
      /\ reqRuns[c] = 0 /\ resRuns[c] = 0
      /\ pc[c] = "done" => result[c] = Rejected(PlainError("URL is required."))

C11_Witness ==
  \E c \in Calls :
    /\ ~options[c].url
    /\ options[c].retry /\ options[c].retryConfig.present
    /\ RetryBudget(options[c]) >= 1
    /\ pc[c] = "done"
    /\ result[c].error.message = "URL is required."
    /\ invocations[c] = 0

\* the attempt counter of the live config of call c
LiveAttempt(c) == OrDefault(opts[c].retryConfig.currentRetryAttempt, 0)

\* C12: the i-th transport invocation of a logical request is made with
\* currentRetryAttempt = i - 1, whatever the earlier attempts answered: the
\* counter starts at 0, grows by one per retry and is never reset.
C12_AttemptCounterCountsRetries ==
  \A c \in Calls :
    /\ \A i \in 1..Len(sent[c]) : sent[c][i].attempt = i - 1
    /\ pc[c] = "dispatch" => LiveAttempt(c) = invocations[c]
    /\ pc[c] \in {"evaluate", "notify", "backoff"}
         => LiveAttempt(c) = invocations[c] - 1
    /\ (Finished(c) /\ invocations[c] >= 1) => LiveAttempt(c) = invocations[c] - 1

C12_Witness ==
  \E c \in Calls :
    /\ outcomes[c] = <<"500", "ENOTFOUND", "TimeoutError">>
    /\ Len(sent[c]) = 3
    /\ sent[c][3].attempt = 2
    /\ pc[c] = "evaluate"

\* the built-in rules allow a retry after the i-th attempt answered `o`
BuiltInAllows(opt, o, i) ==
  /\ RetryEnabled(opt)
  /\ o # "AbortError"
  /\ (i - 1) < RetryBudget(opt)
  /\ opt.method \in MethodsToRetry(opt)
  /\ IF IsStatus(o) THEN StatusRetryable(opt, StatusOf(o))
     ELSE (i - 1) < NoResponseBudget(opt)

\* the i-th attempt of call c has been followed by the decision to retry
Retried(c, i) ==
  /\ i \in 1..Len(outcomes[c])
  /\ (i < Len(outcomes[c]) \/ Retrying(c))

Retries(c) ==
  IF pc[c] \in {"notify", "backoff", "dispatch"} THEN invocations[c]
  ELSE IF invocations[c] >= 1 THEN invocations[c] - 1 ELSE 0

\* C14: onRetryAttempt is invoked exactly once per retry; its k-th invocation
\* observes currentRetryAttempt = k, comes after k attempts and before the
\* k-th backoff sleep, and while its promise is pending neither the sleep nor
\* the next attempt has started.
C14_OnRetryAttemptOncePerRetry ==
  \A c \in Calls :
    IF options[c].retryConfig.onRetryAttempt = "none"
    THEN notified[c] = << >>
    ELSE /\ Len(notified[c]) = Retries(c)
         /\ \A k \in 1..Len(notified[c]) :
              /\ notified[c][k].attempt = k
              /\ notified[c][k].invocations = k
              /\ notified[c][k].backoffs = k - 1
         /\ backoffs[c] <= Len(notified[c])
         /\ pc[c] = "notify" =>
              /\ Len(sent[c]) = Len(notified[c])
              /\ backoffs[c] = Len(notified[c]) - 1
         /\ pc[c] = "dispatch" => backoffs[c] = Len(notified[c])

C14_Witness ==
  \E c \in Calls :
    /\ options[c].retryConfig.onRetryAttempt = "async"
    /\ outcomes[c] = <<"500", "ENOTFOUND", "200">>
    /\ pc[c] = "done" /\ IsFulfilled(result[c])
    /\ Len(notified[c]) = 2
    /\ notified[c][1].attempt = 1 /\ notified[c][2].attempt = 2

Increasing(seq) == \A i, j \in 1..Len(seq) : i < j => seq[i] < seq[j]
Among(seq, chain) == \A i \in 1..Len(seq) : \E j \in 1..Len(chain) : chain[j].id = seq[i]
IsPass(h) == h.kind = "pass"
NoneOfKind(chain, kind) == \A j \in 1..Len(chain) : chain[j].kind # kind
\* what the request chain of call c produced
RequestChainOutput(c) ==
  IF pc[c] = "done" /\ invocations[c] = 0 THEN result[c].trail ELSE opts[c].trail

\* C15: the handlers of a chain act one after the other in insertion order,
\* each on the value the handler before it produced: the value a chain
\* produces was marked by handlers of that chain only, in insertion order and
\* once each, and when every handler passes its input on, by all of them.
C15_HandlersRunInInsertionOrder ==
  \A c \in Calls :
    /\ reqRuns[c] = 1 =>
         /\ Increasing(RequestChainOutput(c))
         /\ Among(RequestChainOutput(c), reqApplied[c])
         /\ NoneOfKind(reqApplied[c], "throw") =>
              RequestChainOutput(c) = Ids(SelectSeq(reqApplied[c], IsPass))
    /\ resRuns[c] = 1 =>
         /\ Increasing(result[c].trail)
         /\ Among(result[c].trail, resChain[c])
         /\ (settled[c].ok /\ NoneOfKind(resChain[c], "throw")) =>
              result[c].trail = Ids(SelectSeq(resChain[c], IsPass))
         /\ (~settled[c].ok /\ NoneOfKind(resChain[c], "recover")) =>
              result[c] = settled[c]

C15_Witness ==
  \E c \in Calls :
    /\ pc[c] = "done" /\ resRuns[c] = 1
    /\ Len(resChain[c]) = 2
    /\ IsPass(resChain[c][1]) /\ IsPass(resChain[c][2])
    /\ result[c].ok
    /\ result[c].trail = <<resChain[c][1].id, resChain[c][2].id>>

\* every handler of the queue sits at the index that add returned for it
SlotsAreIndexes(q) == \A p \in 1..Len(q) : q[p] # NullEntry => q[p].slot = p - 1

\* one step of a manager: nothing, an add whose id is the insertion index
\* (greater than every id given before), or a remove that makes one slot inert
ManagerStep(q, r) ==
  \/ r = q
  \/ /\ Len(r) = Len(q) + 1
     /\ SubSeq(r, 1, Len(q)) = q
     /\ r[Len(r)] # NullEntry /\ r[Len(r)].slot = Len(q)
  \/ /\ Len(r) = Len(q)
     /\ \E p \in 1..Len(q) : q[p] # NullEntry /\ r = [q EXCEPT ![p] = NullEntry]

\* C16: under add and remove the id returned by add is the insertion index;
\* it identifies the same handler as long as the chain lives and is not given
\* out again, and remove(id) makes that one slot inert without moving or
\* changing any other entry.
C16_InterceptorIdsAreStable ==
  /\ [](SlotsAreIndexes(reqQueue) /\ SlotsAreIndexes(resQueue))
  /\ [][ManagerStep(reqQueue, reqQueue') /\ ManagerStep(resQueue, resQueue')]_vars

C16_Witness ==
  /\ Len(reqQueue) = 2
  /\ reqQueue[1] = NullEntry
  /\ reqQueue[2] # NullEntry /\ reqQueue[2].slot = 1

\* the position of the first handler of the chain that has a rejected
\* callback (0 when there is none)
FirstRecover(chain) ==
  IF NoneOfKind(chain, "recover") THEN 0
  ELSE CHOOSE j \in 1..Len(chain) :
         /\ chain[j].kind = "recover"
         /\ \A i \in 1..(j - 1) : chain[i].kind # "recover"
After(chain, j) == SubSeq(chain, j + 1, Len(chain))

\* C17: when the retry loop settles with an error and a response handler
\* with a rejected callback is chained, the first such handler swallows the
\* error: the value it returns is what the later handlers receive and, if
\* none of them throws, what the caller's promise resolves with.
C17_RejectedHandlerSwallowsError ==
  \A c \in Calls :
    LET chain == resChain[c]
        j == FirstRecover(chain)
    IN (resRuns[c] = 1 /\ ~settled[c].ok /\ j > 0) =>
         /\ result[c].trail # << >>
         /\ result[c].trail[1] = chain[j].id
         /\ NoneOfKind(After(chain, j), "throw") =>
              /\ result[c].ok
              /\ result[c].error = NoError
              /\ result[c].trail =
                   <<chain[j].id>> \o Ids(SelectSeq(After(chain, j), IsPass))

C17_Witness ==
  \E c \in Calls :
    /\ pc[c] = "done" /\ resRuns[c] = 1
    /\ outcomes[c] = <<"500", "500">>
    /\ IsRejected(settled[c])
    /\ Len(resChain[c]) = 2
    /\ resChain[c][1].kind = "recover" /\ resChain[c][2].kind = "pass"
    /\ result[c].ok
    /\ result[c].trail = <<resChain[c][1].id, resChain[c][2].id>>

\* the last attempt of call c got a response whose status validateStatus
\* rejects (and whose declared length is within the limit)
StatusRejected(c) ==
  /\ pc[c] = "evaluate"
  /\ IsStatus(Last(outcomes[c]))
  /\ ~ValidateStatus(StatusOf(Last(outcomes[c])))
  /\ ~LimitExceeded(opts[c], options[c].contentLength)

\* C18: when validateStatus rejects a response and the responseType is
\* 'stream', the body of the response is drained to its end before the
\* error is built, and the error carries the response, with its status and
\* the drained body, whatever the method and the request data.
C18_StreamErrorCarriesDrainedBody ==
  \A c \in Calls :
    (StatusRejected(c) /\ opts[c].responseType = "stream") =>
      /\ err[c].hasResponse
      /\ err[c].status = StatusOf(Last(outcomes[c]))
      /\ err[c].data = "body"
      /\ Last(bodyOps[c]) = "drained"

\* the part of C18 that the code does keep: with any other responseType the
\* body has been read by the adapter and the error carries the response
ParsedErrorCarriesBody ==
  \A c \in Calls :
    (StatusRejected(c) /\ opts[c].responseType # "stream") =>
      /\ err[c].hasResponse
      /\ err[c].status = StatusOf(Last(outcomes[c]))
      /\ err[c].data = "body"
      /\ Last(bodyOps[c]) = "read"

\* call c set maxContentLength to a number and every response to it declares
\* a Content-Length greater than that number
OverLimit(c) ==
  /\ options[c].maxContentLength # Undef
  /\ options[c].contentLength # Undef
  /\ options[c].contentLength > options[c].maxContentLength

ContentLengthFailure(e) ==
  /\ e.isGaxios
  /\ e.message = "Content-Length is over the limit"
  /\ e.data = "unread"

\* every attempt of call c that got a response failed on the limit without
\* touching the body, and so did the call
FailsOnLimit(c) ==
  /\ \A i \in 1..Len(outcomes[c]) :
       IsStatus(outcomes[c][i]) => bodyOps[c][i] = "none"
  /\ (pc[c] = "evaluate" /\ IsStatus(Last(outcomes[c])))
       => ContentLengthFailure(err[c])
  /\ (pc[c] = "done" /\ IsStatus(Last(outcomes[c])))
       => (IsRejected(result[c]) /\ ContentLengthFailure(result[c].error))

\* C19: when maxContentLength is set to a number L and the response declares
\* a Content-Length greater than L, the call fails with the content-length
\* error and no operation that reads the body is invoked on the response.
C19_ContentLengthOverLimitFails ==
  \A c \in Calls : OverLimit(c) => FailsOnLimit(c)

\* the part of C19 that the code does keep: a limit greater than zero
PositiveLimitEnforced ==
  \A c \in Calls :
    (OverLimit(c) /\ options[c].maxContentLength > 0) => FailsOnLimit(c)

\* the error carries a config of a call made with the default redactor
Redacted(c, e) == e.isGaxios /\ options[c].errorRedactor /\ IsRef(e.config.headers)

\* the value the error's config shows for the request header `key`
ConfigHeader(e, key) == heap[HeaderCell(e.config.headers, key)]

HeadersRedacted(c, e) ==
  /\ options[c].sensitive => ConfigHeader(e, "authorization") = REDACT
  /\ "random" \in options[c].headers => ConfigHeader(e, "random") = "set"
  /\ e.hasResponse =>
       /\ \A name \in options[c].responseHeaders \cap AuthorizationNames :
            <<"authorization", REDACT>> \in e.headers
            /\ <<"authorization", "set">> \notin e.headers
       /\ "random" \in options[c].responseHeaders
            => <<"random", "set">> \in e.headers

\* C20: in every error delivered to the caller while the default redactor
\* is enabled, a header named Authorization (in any casing) of the error's
\* config and of its response holds the redaction marker, and an unrelated
\* header keeps its value.
C20_AuthorizationHeadersRedacted ==
  \A c \in Calls :
    /\ (pc[c] = "evaluate" /\ Redacted(c, err[c])) => HeadersRedacted(c, err[c])
    /\ (pc[c] = "done" /\ IsRejected(result[c]) /\ Redacted(c, result[c].error))
         => HeadersRedacted(c, result[c].error)

C20_Witness ==
  \E c \in Calls :
    /\ pc[c] = "done" /\ IsRejected(result[c])
    /\ Redacted(c, result[c].error)
    /\ options[c].sensitive /\ options[c].authName = "AUTHORIZATION"
    /\ options[c].headers = OtherHeaderNames
    /\ options[c].responseHeaders = {"AUTHORIZATION", "random"}
    /\ result[c].error.hasResponse
    /\ ConfigHeader(result[c].error, "authorization") = REDACT
    /\ ConfigHeader(result[c].error, "random") = "set"
    /\ result[c].error.headers = {<<"authorization", REDACT>>, <<"random", "set">>}

\* the request failure of call c: the GaxiosError of its last attempt
RequestFailure(c, e) ==
  /\ e.isGaxios
  /\ e.message # RedactorFailure
  /\ e.born = invocations[c]

\* C21: a redactor that throws never escapes the error path: the error is
\* still constructed and the caller receives the failure of the request,
\* not the exception of the redactor.
C21_RedactorFailureNeverEscapes ==
  \A c \in Calls :
    (Finished(c) /\ IsRejected(settled[c]) /\ invocations[c] > 0)
      => RequestFailure(c, settled[c].error)

\* the part of C21 that the code does keep: with the default redactor or
\* none the retry loop settles with the GaxiosError of its last attempt
RequestFailureDelivered ==
  \A c \in Calls :
    (Finished(c) /\ IsRejected(settled[c]) /\ invocations[c] > 0
       /\ ~ConstructorThrows(opts[c]))
      => RequestFailure(c, settled[c].error)

\* call c has been prepared and goes through the proxy / presents the
\* certificate under the key
ProxyOf(c) == ConfiguredProxy(options[c], env)
ViaProxy(c) == opts[c] # NoConfig /\ AgentBranch(options[c], env) = "proxy"
ViaTls(c) == opts[c] # NoConfig /\ AgentBranch(options[c], env) = "tls"

\* C22: the calls of one instance that resolve to the same proxy url (or,
\* without a proxy, to the same key) are given one and the same agent, so
\* that no more agents are constructed than there are proxy urls and keys.
C22_OneAgentPerCacheKey ==
  \A c, d \in Calls :
    /\ (ViaProxy(c) /\ ViaProxy(d) /\ ProxyOf(c).text = ProxyOf(d).text)
         => opts[c].agent = opts[d].agent
    /\ (ViaTls(c) /\ ViaTls(d) /\ options[c].key = options[d].key)
         => opts[c].agent = opts[d].agent

\* the part of C22 that the code does keep: proxies given as strings (the
\* environment's always are), one URL object shared by the calls, and keys
SameKeySameAgent ==
  \A c, d \in Calls :
    /\ (ViaProxy(c) /\ ViaProxy(d) /\ CacheKey(ProxyOf(c)) = CacheKey(ProxyOf(d)))
         => opts[c].agent = opts[d].agent
    /\ (ViaTls(c) /\ ViaTls(d) /\ options[c].key = options[d].key)
         => opts[c].agent = opts[d].agent
    /\ agentsMade = Cardinality(agentCache)
    /\ \A e, f \in agentCache : e.key = f.key => e = f

\* the proxy that the precedence of C23 designates for call c ("": none)
FirstProxy(c) ==
  CASE options[c].proxy # NoProxy -> options[c].proxy.text
    [] env.HTTPS_PROXY # "" -> env.HTTPS_PROXY
    [] env.https_proxy # "" -> env.https_proxy
    [] env.HTTP_PROXY # "" -> env.HTTP_PROXY
    [] OTHER -> env.http_proxy
Excluded(c) == ~UrlMayUseProxy(options[c].target, options[c].noProxy, env)
HasCertAndKey(c) == options[c].cert # "" /\ options[c].key # ""

\* C23: the agent of a prepared call is the caller's agent if there is one
\* (and then nothing is constructed or cached); otherwise an agent for the
\* configured proxy, the option before HTTPS_PROXY, https_proxy, HTTP_PROXY
\* and http_proxy, unless the url is excluded; otherwise a TLS agent if both
\* cert and key are configured; otherwise none.
C23_AgentSelectionPrecedence ==
  \A c \in Calls :
    opts[c] # NoConfig =>
      CASE options[c].agent = "user" ->
             opts[c].agent = UserAgent /\ agentsMade = 0 /\ agentCache = {}
        [] FirstProxy(c) # "" /\ ~Excluded(c) ->
             /\ opts[c].agent.kind = "proxy"
             /\ opts[c].agent.proxy = FirstProxy(c)
        [] HasCertAndKey(c) ->
             /\ opts[c].agent.kind = "tls"
             /\ opts[c].agent.cert = options[c].cert
             /\ opts[c].agent.key = options[c].key
        [] OTHER -> opts[c].agent = NoAgent /\ agentsMade = 0

C23_Witness ==
  \E c \in Calls :
    /\ pc[c] = "done"
    /\ options[c].agent = "none"
    /\ options[c].proxy = StringProxy(FakeProxy)
    /\ env.HTTPS_PROXY # "" /\ env.http_proxy # ""
    /\ HasCertAndKey(c)
    /\ ~Excluded(c)
    /\ opts[c].agent.kind = "proxy" /\ opts[c].agent.proxy = FakeProxy

\* the entries of the no-proxy variable in force: NO_PROXY or, when that is
\* not set, no_proxy
EnvEntries ==
  CASE env.NO_PROXY = OtAndDotEx -> <<StringRule(OtIo), StringRule(DotExIo)>>
    [] env.NO_PROXY = << >> -> <<StringRule(<< >>)>>
    [] env.no_proxy = ExIo -> <<StringRule(ExIo)>>
    [] OTHER -> << >>

HostnameSuffix(u, suffix) ==
  \E k \in 0..Len(u.hostname) : SubSeq(u.hostname, k + 1, Len(u.hostname)) = suffix

\* a rule matches a url as C24 says
RuleMatches(rule, u) ==
  CASE rule.kind = "regexp" -> Href(u) \in rule.accepts
    [] rule.kind = "url" -> rule.text = Origin(u)
    [] rule.text # << >> /\ rule.text[1] = "." -> HostnameSuffix(u, rule.text)
    [] Len(rule.text) >= 2 /\ rule.text[1] = "*" /\ rule.text[2] = "." ->
         HostnameSuffix(u, Tail(rule.text))
    [] OTHER -> rule.text \in {Origin(u), u.hostname, Href(u)}

SomeRuleMatches(c) ==
  LET rules == options[c].noProxy \o EnvEntries
  IN \E i \in 1..Len(rules) : RuleMatches(rules[i], options[c].target)

\* C24: a prepared call for which a proxy is configured goes around the
\* proxy if and only if a rule of the noProxy option or an entry of the
\* no-proxy variable matches its url.
C24_BypassIffSomeRuleMatches ==
  \A c \in Calls :
    (opts[c] # NoConfig /\ FirstProxy(c) # "")
      => (opts[c].agent.kind # "proxy" <=> SomeRuleMatches(c))

C24_Witness ==
  \E c \in Calls :
    /\ pc[c] = "done"
    /\ env.HTTPS_PROXY # "" /\ options[c].proxy = NoProxy
    /\ env.NO_PROXY = OtAndDotEx
    /\ options[c].noProxy = << >>
    /\ options[c].target = Url(SubExIo, <<"/">>)
    /\ opts[c].agent = NoAgent

\* ... and a url that no rule matches goes through the proxy
ProxiedWhenNoRuleMatches ==
  \E c \in Calls :
    /\ pc[c] = "done"
    /\ env.HTTPS_PROXY # "" /\ env.NO_PROXY = OtAndDotEx
    /\ options[c].noProxy = <<StringRule(ExIo)>>
    /\ options[c].target = Url(XexIo, <<"/">>)
    /\ opts[c].agent.kind = "proxy"

\* the deadline of call c, counted from its first request
Deadline(c) == OrDefault(options[c].retryConfig.totalTimeout, Forever)
HasDeadline(c) == options[c].retryConfig.totalTimeout # Undef

\* the delay that the retry state alone gives for the i-th retry of call c
UnshortenedDelay(c, i) ==
  LET rc == WithRetryDefaults(options[c].retryConfig)
  IN Min(rc.maxRetryDelay, rc.retryDelay * Pow(rc.retryDelayMultiplier, i - 1))

\* C25: with totalTimeout set, no retry is dispatched after the deadline:
\* each sleep is the computed delay, or is shortened so that the retry runs
\* exactly at the deadline, and no retry is decided once the deadline has
\* passed, whatever is left of the retry budget.
C25_NoRetryAfterDeadline ==
  \A c \in Calls :
    HasDeadline(c) =>
      /\ \A i \in 2..Len(startedAt[c]) :
           /\ startedAt[c][i] <= Deadline(c)
           /\ \/ sleeps[c][i - 1] = UnshortenedDelay(c, i - 1)
              \/ /\ sleeps[c][i - 1] < UnshortenedDelay(c, i - 1)
                 /\ startedAt[c][i] = Deadline(c)
      /\ (Retrying(c) /\ invocations[c] > 0) => elapsed[c] <= Deadline(c)

\* a retry whose sleep was shortened and ran at the deadline, and then a
\* failure after the deadline with retries left
C25_Witness ==
  \E c \in Calls :
    /\ HasDeadline(c) /\ Deadline(c) = 3
    /\ startedAt[c] = <<0, 3>>
    /\ sleeps[c] = <<1>> /\ UnshortenedDelay(c, 1) = 2
    /\ elapsed[c] = 5
    /\ pc[c] = "settled" /\ IsRejected(settled[c])
    /\ outcomes[c] = <<"500", "500">>
    /\ MaxRetry >= 2

WasPrepared(c) == prepared[c] # << >>

\* C26 as stated: two preparations of the same options yield configs that
\* are deep-equal on url, method, headers and body.
C26_PreparationIsPure ==
  \A c, d \in Calls :
    (WasPrepared(c) /\ WasPrepared(d) /\ options[c] = options[d])
      => prepared[c] = prepared[d]

\* C26, amended: two preparations of the same options yield configs with
\* the same url and method; without a multipart option the headers and the
\* body are equal too, and with one they differ in the boundary only, which
\* is drawn anew for every preparation.
C26_PreparationIsPureUpToBoundary ==
  \A c, d \in Calls :
    (WasPrepared(c) /\ WasPrepared(d) /\ options[c] = options[d] /\ c # d)
      => LET p == prepared[c][1]
             q == prepared[d][1]
         IN /\ p.url = q.url /\ p.method = q.method /\ p.headers = q.headers
            /\ p.merged = q.merged
            /\ p.body[1] = q.body[1] /\ p.contentType[1] = q.contentType[1]
            /\ ~options[c].multipart => p = q
            /\ options[c].multipart => p.body[2] # q.body[2]

C26_Witness ==
  \E c, d \in Calls :
    /\ c # d /\ WasPrepared(c) /\ WasPrepared(d)
    /\ options[c] = options[d]
    /\ options[c].multipart /\ "random" \in options[c].headers
    /\ prepared[c][1].contentType = <<<<MultipartRelated>>, 1>>
    /\ prepared[d][1].contentType = <<<<MultipartRelated>>, 2>>
    /\ pc[1] = "done"

\* the names that a header key is written as
Casings(key) == {n \in MergeNames \cup {"APPLE", "set-cookie"} : Lower(n) = key}
Keys(init) == {Lower(init[i][1]) : i \in 1..Len(init)}

\* the values given under a key in an init, in order
RECURSIVE ValuesIn(_, _)
ValuesIn(init, key) ==
  IF init = << >> THEN << >>
  ELSE (IF Lower(Head(init)[1]) = key THEN <<Head(init)[2]>> ELSE << >>)
         \o ValuesIn(Tail(init), key)

MediaType(contentType) ==
  LET lower == ToLowerCase(contentType)
      ends == {i \in 1..Len(lower) : lower[i] = ";"}
  IN IF ends = {} THEN lower
     ELSE SubSeq(lower, 1, (CHOOSE i \in ends : \A j \in ends : i <= j) - 1)

Sniffed(c) ==
  /\ opts[c].responseType = "unknown"
  /\ decoded[c] # << >>
  /\ Last(decoded[c]) # "none"

\* C28 as stated: without a responseType, application/json in any case
\* yields the parsed JSON or, if parsing fails, the text; text/* yields
\* text; every other case yields the raw bytes.
C28_DecodedFromContentType ==
  \A c \in Calls :
    Sniffed(c) =>
      LET contentType == options[c].responseContentType
          data == Last(decoded[c])
      IN IF contentType # NoContentType /\ MediaType(contentType) = ApplicationJson
         THEN data = (IF Parses(options[c].responseBody) THEN "parsed" ELSE "text")
         ELSE IF contentType # NoContentType
                 /\ StartsWith(MediaType(contentType), <<"t", "e", "x", "t", "/">>)
              THEN data = "text"
              ELSE data = "blob"

\* C28, amended: without a responseType, a Content-Type that contains
\* application/json (in any case, anywhere in the value) yields the parsed
\* JSON or, if parsing fails, the text; otherwise one that starts with
\* text/ yields text; a response without Content-Type yields text; every
\* other case yields the raw bytes.
C28_DecodedFromContentTypeOrText ==
  \A c \in Calls :
    Sniffed(c) =>
      LET contentType == options[c].responseContentType
          data == Last(decoded[c])
      IN CASE contentType = NoContentType -> data = "text"
           [] contentType \in {ApplicationJson, ApplicationJsonUpper,
                                ApplicationJsonCharset, ApplicationJsonSeq,
                                TextWithJsonParameter} ->
                data = (IF Parses(options[c].responseBody) THEN "parsed" ELSE "text")
           [] contentType \in {TextPlain, TextCsvUpper} -> data = "text"
           [] OTHER -> data = "blob"

C28_Witness ==
  /\ pc[1] = "done" /\ result[1].ok
  /\ opts[1].responseType = "unknown"
  /\ options[1].responseContentType = ApplicationJsonUpper
  /\ options[1].responseBody = "text"
  /\ decoded[1] = <<"text">>

\* attempt i of call c got a response whose status validateStatus accepts
Accepted(c, i) ==
  IsStatus(outcomes[c][i]) /\ ValidateStatus(StatusOf(outcomes[c][i]))

\* C29: an attempt whose response status validateStatus accepts is never
\* followed by a retry, whether or not its body could be decoded.
C29_AcceptedStatusNeverRetried ==
  \A c \in Calls :
    \A i \in 1..Len(outcomes[c]) :
      Accepted(c, i) => (i = Len(outcomes[c]) /\ ~Retrying(c))

\* the part that the code keeps: an accepted response whose body was
\* decoded is not followed by a retry
DecodedResponseNeverRetried ==
  \A c \in Calls :
    \A i \in 1..Len(outcomes[c]) :
      (Accepted(c, i) /\ decoded[c][i] # "SyntaxError")
        => (i = Len(outcomes[c]) /\ ~Retrying(c))

\* what an attempt was dispatched with, the retry state left out
Dispatched(c, i) == [sent[c][i] EXCEPT !.attempt = 0]

\* C30: every retry attempt is dispatched with the url, method, headers,
\* body and agent of the first attempt.
C30_RetriesUseThePreparedConfig ==
  \A c \in Calls :
    \A i \in 1..Len(sent[c]) : Dispatched(c, i) = Dispatched(c, 1)

\* the part that the code keeps: method, agent and multipart boundary are
\* those of the first attempt, and so are url, headers and body when the
\* error redactor is switched off
RetriesKeepMethodAndAgent ==
  \A c \in Calls :
    \A i \in 1..Len(sent[c]) :
      /\ sent[c][i].method = sent[c][1].method
      /\ sent[c][i].agent = sent[c][1].agent
      /\ sent[c][i].boundary = sent[c][1].boundary
      /\ ~opts[c].errorRedactor => Dispatched(c, i) = Dispatched(c, 1)

\* call c is about to dispatch a retry of an attempt that the timeout ended
RetryAfterTimeout(c) ==
  /\ pc[c] = "dispatch"
  /\ outcomes[c] # << >>
  /\ Last(outcomes[c]) = "TimeoutError"

\* C31: the retry that follows an attempt which the timeout ended is
\* dispatched with a signal that has not fired.
C31_RetryGetsFreshTimeout ==
  \A c \in Calls : RetryAfterTimeout(c) => fired[c] = "no"

\* what the code does instead: once the timeout has fired, every later
\* attempt of the call ends with the timeout too
TimeoutIsInherited ==
  \A c \in Calls :
    \A i \in 1..Len(outcomes[c]) :
      (i > 1 /\ outcomes[c][i - 1] = "TimeoutError") => outcomes[c][i] = "TimeoutError"

CallbackFails(c) == options[c].retryConfig.onRetryAttempt \in {"throws", "rejects"}

RequestChainRejected(c) ==
  reqRuns[c] >= 1 /\ ~RunChain(reqApplied[c], Fulfilled(0)).ok

\* C33: when the request interceptor chain ends in a rejection, the
\* transport is never invoked for the call, no retry is evaluated, no
\* response handler runs, and the call rejects with that rejection.
C33_RejectedRequestChainStopsTheCall ==
  \A c \in Calls :
    RequestChainRejected(c) =>
      /\ invocations[c] = 0 /\ sent[c] = << >> /\ outcomes[c] = << >>
      /\ err[c] = NoError /\ notified[c] = << >> /\ backoffs[c] = 0
      /\ resRuns[c] = 0 /\ resChain[c] = << >>
      /\ pc[c] = "done"
      /\ result[c] = RunChain(reqApplied[c], Fulfilled(0))

C33_Witness ==
  \E c \in Calls :
    /\ RequestChainRejected(c)
    /\ pc[c] = "done" /\ IsRejected(result[c])
    /\ result[c].error.message = "interceptor"
    /\ \E i \in 1..Len(resQueue) : resQueue[i] # NullEntry /\ resQueue[i].kind = "recover"

\* an attempt of call c received a body that is not JSON
GotUnparsableBody(c) ==
  /\ ~Parses(options[c].responseBody)
  /\ \E i \in 1..Len(decoded[c]) : decoded[c][i] # "none"

DecodeFailure(e) == e.isGaxios /\ e.message = "SyntaxError" /\ ~e.hasResponse

\* C34: with responseType 'json' a response whose body is not JSON makes the
\* call fail with the decode failure, wrapped in the error model; without a
\* responseType the same body is returned as text, without a failure.
C34_JsonFailsWhereSniffingFallsBack ==
  \A c \in Calls :
    (GotUnparsableBody(c) /\ pc[c] = "done") =>
      /\ opts[c].responseType = "json" =>
           (IsRejected(result[c]) /\ DecodeFailure(result[c].error))
      /\ opts[c].responseType = "unknown" =>
           \A i \in 1..Len(decoded[c]) : decoded[c][i] \in {"none", "text", "blob"}

\* the part that the code keeps: the attempt that received the body fails
\* with the wrapped decode failure under 'json', and under sniffing every
\* such body is data, so that an accepted status fulfils the call
UnparsableBodyPerAttempt ==
  \A c \in Calls :
    /\ (pc[c] = "evaluate" /\ Last(decoded[c]) = "SyntaxError") =>
         (opts[c].responseType = "json" /\ DecodeFailure(err[c]))
    /\ (opts[c].responseType = "json" /\ ~Parses(options[c].responseBody)
          /\ pc[c] = "evaluate" /\ Last(decoded[c]) # "none") =>
         DecodeFailure(err[c])
    /\ (opts[c].responseType = "unknown" /\ pc[c] = "done" /\ outcomes[c] # << >>
          /\ Last(outcomes[c]) = "200") => IsFulfilled(result[c])

FromCache(c) == ViaProxy(c) \/ ViaTls(c)

\* C35 as stated: an agent that a request is given from the cache was
\* constructed with the proxy url, the certificate and the key that the
\* request itself specifies.
C35_CachedAgentHasOwnCredentials ==
  \A c \in Calls :
    FromCache(c) =>
      /\ opts[c].agent.proxy = (IF ViaProxy(c) THEN ProxyOf(c).text ELSE "")
      /\ opts[c].agent.cert = options[c].cert
      /\ opts[c].agent.key = options[c].key

\* C35, amended: an agent that a request is given from the cache was
\* constructed for the cache key of the request, which is the proxy url for
\* a proxy agent and the key for a TLS agent, with the certificate and key
\* of the request that constructed it, which need not be its own.
C35_CachedAgentBuiltForSameCacheKey ==
  \A c \in Calls :
    FromCache(c) =>
      /\ ViaProxy(c) => (opts[c].agent.kind = "proxy"
                           /\ opts[c].agent.proxy = ProxyOf(c).text)
      /\ ViaTls(c) => (opts[c].agent.kind = "tls"
                         /\ opts[c].agent.key = options[c].key)
      /\ \E d \in Calls :
           /\ FromCache(d) /\ opts[d].agent = opts[c].agent
           /\ ViaProxy(d) = ViaProxy(c)
           /\ options[d].cert = opts[c].agent.cert
           /\ options[d].key = opts[c].agent.key

C35_Witness ==
  \E c, d \in Calls :
    /\ ViaProxy(c) /\ ViaProxy(d)
    /\ options[c].cert = "cert" /\ options[c].key = "key"
    /\ options[d].cert = "" /\ options[d].key = ""
    /\ opts[d].agent = opts[c].agent
    /\ opts[d].agent.cert = "cert" /\ opts[d].agent.key = "key"

\* C36: remove with an id that add returned before removeAll() leaves every
\* handler added after removeAll() active.
C36_StaleIdNeverRemovesLaterHandler ==
  [][\A id \in retired :
       RemoveRequestInterceptor(id) => reqQueue' = reqQueue]_vars

\* the part that the code keeps: a handler is made inert by a remove with
\* its own index only, stale or not
RemoveTouchesOneSlot ==
  [][\A id \in 0..(MaxHandlers - 1) :
       RemoveRequestInterceptor(id) =>
         \A p \in 1..Len(reqQueue) : p # id + 1 => reqQueue'[p] = reqQueue[p]]_vars

\* C37: every request() settles, and has by then made finitely many
\* attempts (fewer than the bound the model puts on them), provided every
\* transport call and every callback settles.
C37_EveryRequestSettles ==
  \A c \in Calls :
    (pc[c] # "idle") ~> (pc[c] = "done" /\ invocations[c] < AttemptCap)

C37_Witness ==
  \E c \in Calls :
    /\ pc[c] = "done"
    /\ invocations[c] >= 2
    /\ Len(notified[c]) >= 1

\* the attempt of call c that has just failed, and what the transport answered
AttemptFailed(c) == pc[c] = "evaluate" /\ outcomes[c] # << >>

\* the code that the error of an attempt ended by `o` is described to carry:
\* the code of a transport error, the name of an abort or a timeout, and the
\* status, as a string, of a response that validateStatus rejected
DescribedCode(o) ==
  CASE IsStatus(o) -> o
    [] CauseOf(o).type = "DOMException" -> CauseOf(o).name
    [] OTHER -> CauseOf(o).code

\* C38: the error of every failed attempt has a code: the transport error's
\* code, the abort or timeout name, or else the HTTP status that
\* validateStatus rejected.
C38_EveryErrorHasCode ==
  \A c \in Calls :
    AttemptFailed(c) =>
      (err[c].code # "" /\ err[c].code = DescribedCode(Last(outcomes[c])))

\* what the constructor does: the code is taken from the cause, and an
\* error without a cause, such as a rejected status, has none
CodeComesFromCauseOnly ==
  \A c \in Calls :
    AttemptFailed(c) =>
      /\ err[c].code = ErrorCode(CauseOf(Last(outcomes[c])))
      /\ ~IsStatus(Last(outcomes[c])) => err[c].code = DescribedCode(Last(outcomes[c]))
      /\ IsStatus(Last(outcomes[c])) =>
            (err[c].code = "" /\ err[c].status = StatusOf(Last(outcomes[c])))

\* the caller's Content-Type as the merged headers hold it before the body
\* is derived (the empty list: none), and what the call was prepared with
CallerContentType(c) == HeadersGet(PreparedHeaders(defaults, options[c]), "content-type")
PreparedContentType(c) == prepared[c][1].contentType[1]
Encoding(c) == prepared[c][1].encoding

\* the header declares the form-urlencoded media type
IsFormUrlEncoded(ct) == Len(ct) = 1 /\ MediaType(ct[1]) = FormUrlEncoded

BodyChosenByExactContentType ==
  \A c \in Calls :
    WasPrepared(c) =>
      LET o == options[c]
          ct == CallerContentType(c)
      IN CASE o.multipart ->
                /\ Encoding(c) = "multipart"
                /\ PreparedContentType(c) = <<MultipartRelated>>
           [] o.dataKind \in BodyNative ->
                Encoding(c) = "data" /\ PreparedContentType(c) = ct
           [] o.dataKind = "plain" /\ ct = <<FormUrlEncoded>> ->
                Encoding(c) = "URLSearchParams(data)" /\ PreparedContentType(c) = ct
           [] o.dataKind = "plain" ->
                /\ Encoding(c) = "JSON.stringify(data)"
                /\ PreparedContentType(c) = IF ct = << >> THEN <<ApplicationJson>> ELSE ct
           [] OTHER -> Encoding(c) = "absent" /\ PreparedContentType(c) = ct

\* a JSON body goes out under a form-urlencoded content-type
JsonUnderFormContentType ==
  \E c \in Calls :
    /\ WasPrepared(c)
    /\ Encoding(c) = "JSON.stringify(data)"
    /\ IsFormUrlEncoded(PreparedContentType(c))

\* calls c and d are the same request, once with and once without redaction
RedactionPair(c, d) ==
  /\ options[c].errorRedactor /\ ~options[d].errorRedactor
  /\ [options[c] EXCEPT !.errorRedactor = FALSE] = options[d]

IsPrefixOf(s, t) == Len(s) <= Len(t) /\ SubSeq(t, 1, Len(s)) = s

\* what the caller sees of a settled call, the contents of the error's
\* config and response left aside
Verdict(r) ==
  [ok |-> r.ok, status |-> r.status, isGaxios |-> r.error.isGaxios,
   message |-> r.error.message, hasResponse |-> r.error.hasResponse,
   errorStatus |-> r.error.status, code |-> r.error.code]

\* C40: the retry decision does not depend on redaction: of two calls of
\* the same request, one with and one without the default redactor, neither
\* goes on where the other, given the same transport outcomes, has stopped,
\* and on the same outcomes both end with the same result.
C40_RetryDecisionIgnoresRedaction ==
  \A c, d \in Calls :
    (RedactionPair(c, d) \/ RedactionPair(d, c)) =>
      /\ (pc[c] = "done" /\ IsPrefixOf(outcomes[c], outcomes[d]))
           => outcomes[d] = outcomes[c]
      /\ (pc[c] = "done" /\ pc[d] = "done" /\ outcomes[c] = outcomes[d])
           => /\ invocations[c] = invocations[d]
              /\ Verdict(result[c]) = Verdict(result[d])

C40_Witness ==
  \E c, d \in Calls :
    /\ RedactionPair(c, d)
    /\ options[c].sensitive
    /\ pc[c] = "done" /\ pc[d] = "done"
    /\ outcomes[c] = outcomes[d]
    /\ invocations[c] >= 2
    /\ IsRejected(result[c])
    /\ result[c].error.config # result[d].error.config

====
